---- MODULE Spec2Model ----
(***************************************************************************)
(* Model of the multi-pass refinement loop of aclarador                    *)
(* (src/multi_pass_processor.py, class MultiPassProcessor), of its         *)
(* convergence detector and of its quality model                           *)
(* (src/quality_analyzer.py, classes ConvergenceDetector, QualityAnalyzer).*)
(*                                                                         *)
(* Quality scores and thresholds are exact numbers in hundredths           *)
(* (0.85 is 85).  Texts are sequences of characters; the code only uses    *)
(* their length and their equality.  Improvement records are Python dicts, *)
(* i.e. mutable objects with identity: they are modelled as references     *)
(* into a heap that holds each object's "pass_number" key.                 *)
(* Wall-clock fields (processing_time, total_time) are left out.           *)
(***************************************************************************)
EXTENDS Integers, Sequences, FiniteSets, TLC

(* ---------------------------------------------------------------------- *)
(* Bounds and input domains                                               *)
(* ---------------------------------------------------------------------- *)

\* largest max_passes a processor is constructed with
MaxPassesBound == 4

\* max_passes values given to the constructor (0 is an invalid configuration)
MaxPassesChoices == 0..MaxPassesBound

\* convergence_threshold values (100 = 1.0 lies outside (0,1))
ConvergenceChoices == {2, 5, 100}

\* min_quality_threshold values (0 lies outside (0,1))
MinQualityChoices == {0, 85, 95}

\* texts given to a run and returned by the pipeline
Texts == { <<>>, <<"a">>, <<"b">> }

\* quality scores the pipeline's validation step reports
Scores == {0, 50, 52, 53, 85, 97}

\* the value of final_validation when the pipeline result has no quality_score
NoScore == -1

\* improvement objects (dicts) the pipeline can hand out
Objs == {"i1", "i2"}

\* improvement lists the pipeline returns in one pass
ImprovementLists == { <<>>, <<"i1">>, <<"i2", "i1">> }

\* heap value of an object that has no "pass_number" key yet
Untagged == 0

VARIABLES
    max_passes,             \* self.max_passes
    convergence_threshold,  \* self.convergence_threshold
    min_quality_threshold,  \* self.min_quality_threshold
    pc,                     \* "idle", "running", "done", "raised", "zerodiv"
    text,                   \* the text given to the run
    passes,                 \* the local list passes
    current_text,           \* the local current_text
    previous_quality,       \* the local previous_quality
    quality_score,          \* the local quality_score of the current iteration
    final_validation,       \* quality_score entry of the last pipeline result's
                            \* final_validation, NoScore when it has none
    iter,                   \* iterations of the for loop already started
    calls,                  \* invocations of coordinator.process_text
    reason,                 \* the reason last returned by _should_continue_processing
    heap,                   \* pass_number key of every improvement object
    report,                 \* the dict returned to the caller
    quality_history,        \* ConvergenceDetector.quality_history
    improvement_history,    \* ConvergenceDetector.improvement_history
    adds,                   \* calls of add_processing_result since construction
                            \* or the last reset_history
    last_result,            \* the detector's last call and the value it returned
    cleared,                \* reset_history has emptied a history that had entries
    sample,                 \* the text handed to analyze_comprehensive_quality
    quality_metrics,        \* the QualityMetrics it returned
    max_size,               \* InMemoryCache.max_size
    default_ttl,            \* InMemoryCache.default_ttl
    cache,                  \* InMemoryCache.cache, the entry of every key
    access_order,           \* InMemoryCache.access_order
    hits,                   \* InMemoryCache.hits
    misses,                 \* InMemoryCache.misses
    lock,                   \* the thread inside a with self._lock block
    now,                    \* time.time()
    th,                     \* every thread's position and locals in its call
    gets_done,              \* get calls that returned since the last clear did
    recency,                \* keys in the order of their last returned hit or put
    wrapped,                \* the decorator's arguments and the wrapped function
    files,                  \* the value PersistentCache holds for every key
    executions              \* executions of the wrapped function per argument

\* the variables of a MultiPassProcessor and of its run
procVars == << max_passes, convergence_threshold, min_quality_threshold, pc,
               text, passes, current_text, previous_quality, quality_score,
               final_validation, iter, calls, reason, heap, report >>

\* the variables of a ConvergenceDetector
detVars == << quality_history, improvement_history, adds, last_result,
              cleared >>

\* the variables of one call of the quality model
qualVars == << sample, quality_metrics >>

\* the variables of an InMemoryCache, of its callers and of a function
\* wrapped with PerformanceOptimizer.cached
cacheVars == << max_size, default_ttl, cache, access_order, hits, misses,
                lock, now, th, gets_done, recency, wrapped, files,
                executions >>

vars == << procVars, detVars, qualVars, cacheVars >>

config == << max_passes, convergence_threshold, min_quality_threshold >>

(* ---------------------------------------------------------------------- *)
(* Helpers                                                                *)
(* ---------------------------------------------------------------------- *)

Abs(n) == IF n < 0 THEN 0 - n ELSE n

Min(a, b) == IF a < b THEN a ELSE b

\* the configurations the specification calls valid
ValidConfig ==
    /\ max_passes >= 1
    /\ convergence_threshold > 0 /\ convergence_threshold < 100
    /\ min_quality_threshold > 0 /\ min_quality_threshold < 100

\* range(0, max_passes + 1): the loop started from 0
PassRangeFromZero == [i \in 1..(max_passes + 1) |-> i - 1]

\* range(1, self.max_passes + 1), the values pass_num takes in order
PassRange == [i \in 1..max_passes |-> i]

\* results.get('final_validation', {}).get('quality_score', 0.0)
QualityScoreOf(fv) == IF fv = NoScore THEN 0 ELSE fv

\* line 110 divides by len(input_text) whenever the texts differ
MetricsRaises(input_text, output_text) ==
    (input_text # output_text) /\ Len(input_text) = 0

\* the improvement taken to be the score itself, the previous score forgotten
QualityImprovementAbsolute(prev_quality, curr_quality) == curr_quality

\* curr_quality - prev_quality if prev_quality > 0 else curr_quality
QualityImprovement(prev_quality, curr_quality) ==
    IF prev_quality > 0 THEN curr_quality - prev_quality ELSE curr_quality

\* changes_made = input_text != output_text
ChangesMade(input_text, output_text) == input_text # output_text

\* _calculate_convergence_metrics; ratios in hundredths, truncated
CalculateConvergenceMetrics(input_text, output_text, prev_quality, curr_quality) ==
    [ text_similarity |->
          IF Len(input_text) > 0
          THEN 100 - ((100 * Abs(Len(output_text) - Len(input_text)))
                          \div Len(input_text))
          ELSE 100,
      quality_improvement |-> QualityImprovement(prev_quality, curr_quality),
      change_ratio |->
          IF ~ChangesMade(input_text, output_text) THEN 0
          ELSE Min(100, (100 * Abs(Len(output_text) - Len(input_text)))
                          \div Len(input_text)),
      changes_made |-> ChangesMade(input_text, output_text) ]

(* ---------------------------------------------------------------------- *)
(* _should_continue_processing                                            *)
(* ---------------------------------------------------------------------- *)

MaxPassesReason == "Maximum passes reached"
QualityReason == "Quality threshold reached"
ConvergenceReason == "Convergence detected"
NoChangesReason == "No changes made in this pass"
ContinueReason == "Continue processing"

\* the quality threshold tested before the pass budget
ShouldContinueQualityFirst(current_pass, prev_quality, pass_number) ==
    IF current_pass.quality_score >= min_quality_threshold
    THEN << FALSE, QualityReason >>
    ELSE IF pass_number >= max_passes
    THEN << FALSE, MaxPassesReason >>
    ELSE IF pass_number > 1
            /\ current_pass.convergence_metrics.quality_improvement
                   < convergence_threshold
    THEN << FALSE, ConvergenceReason >>
    ELSE IF ~current_pass.convergence_metrics.changes_made
    THEN << FALSE, NoChangesReason >>
    ELSE << TRUE, ContinueReason >>

\* the quality threshold tested with > instead of >=
ShouldContinueStrictQuality(current_pass, prev_quality, pass_number) ==
    IF pass_number >= max_passes
    THEN << FALSE, MaxPassesReason >>
    ELSE IF current_pass.quality_score > min_quality_threshold
    THEN << FALSE, QualityReason >>
    ELSE IF pass_number > 1
            /\ current_pass.convergence_metrics.quality_improvement
                   < convergence_threshold
    THEN << FALSE, ConvergenceReason >>
    ELSE IF ~current_pass.convergence_metrics.changes_made
    THEN << FALSE, NoChangesReason >>
    ELSE << TRUE, ContinueReason >>

\* the check for an unchanged text left out
ShouldContinueNoChangeCheck(current_pass, prev_quality, pass_number) ==
    IF pass_number >= max_passes
    THEN << FALSE, MaxPassesReason >>
    ELSE IF current_pass.quality_score >= min_quality_threshold
    THEN << FALSE, QualityReason >>
    ELSE IF pass_number > 1
            /\ current_pass.convergence_metrics.quality_improvement
                   < convergence_threshold
    THEN << FALSE, ConvergenceReason >>
    ELSE << TRUE, ContinueReason >>

\* the pass budget tested with > instead of >=
ShouldContinueLateBudget(current_pass, prev_quality, pass_number) ==
    IF pass_number > max_passes
    THEN << FALSE, MaxPassesReason >>
    ELSE IF current_pass.quality_score >= min_quality_threshold
    THEN << FALSE, QualityReason >>
    ELSE IF pass_number > 1
            /\ current_pass.convergence_metrics.quality_improvement
                   < convergence_threshold
    THEN << FALSE, ConvergenceReason >>
    ELSE IF ~current_pass.convergence_metrics.changes_made
    THEN << FALSE, NoChangesReason >>
    ELSE << TRUE, ContinueReason >>

\* the unchanged-text check made before the minimal-improvement check
ShouldContinueChangesFirst(current_pass, prev_quality, pass_number) ==
    IF pass_number >= max_passes
    THEN << FALSE, MaxPassesReason >>
    ELSE IF current_pass.quality_score >= min_quality_threshold
    THEN << FALSE, QualityReason >>
    ELSE IF ~current_pass.convergence_metrics.changes_made
    THEN << FALSE, NoChangesReason >>
    ELSE IF pass_number > 1
            /\ current_pass.convergence_metrics.quality_improvement
                   < convergence_threshold
    THEN << FALSE, ConvergenceReason >>
    ELSE << TRUE, ContinueReason >>

\* _should_continue_processing: << should_continue, reason >>
ShouldContinueProcessing(current_pass, prev_quality, pass_number) ==
    IF pass_number >= max_passes
    THEN << FALSE, MaxPassesReason >>
    ELSE IF current_pass.quality_score >= min_quality_threshold
    THEN << FALSE, QualityReason >>
    ELSE IF pass_number > 1
            /\ current_pass.convergence_metrics.quality_improvement
                   < convergence_threshold
    THEN << FALSE, ConvergenceReason >>
    ELSE IF ~current_pass.convergence_metrics.changes_made
    THEN << FALSE, NoChangesReason >>
    ELSE << TRUE, ContinueReason >>

(* ---------------------------------------------------------------------- *)
(* _compile_multi_pass_results                                            *)
(* ---------------------------------------------------------------------- *)

\* the (object, pass_number) pairs in the order the nested loops visit them
RECURSIVE Visits(_)
Visits(ps) ==
    IF ps = << >> THEN << >>
    ELSE [i \in 1..Len(Head(ps).improvements) |->
              << Head(ps).improvements[i], Head(ps).pass_number >>]
         \o Visits(Tail(ps))

\* improvement["pass_number"] = pass_obj.pass_number, for every visit in order
RECURSIVE TagAll(_, _)
TagAll(h, vs) ==
    IF vs = << >> THEN h
    ELSE TagAll([h EXCEPT ![Head(vs)[1]] = Head(vs)[2]], Tail(vs))

\* all_improvements: the visited objects, by reference
AllImprovements(ps) == [i \in 1..Len(Visits(ps)) |-> Visits(ps)[i][1]]

\* the state of the improvement objects after the aggregation loop
CompiledHeap(h, ps) == TagAll(h, Visits(ps))

\* pass_summary
PassSummary(ps) ==
    [i \in 1..Len(ps) |->
        [ pass |-> ps[i].pass_number,
          quality |-> ps[i].quality_score,
          improvements |-> Len(ps[i].improvements),
          changes_made |-> ps[i].convergence_metrics.changes_made ]]

\* the value of report before process_with_multiple_passes has returned
NoReport == [ kind |-> "none" ]

\* {"error": "No passes completed"}
ErrorReport == [ kind |-> "error" ]

\* final_text taken from the last pass's input instead of its output
CompileFinalTextFromInput(ps) ==
    IF ps = << >> THEN ErrorReport
    ELSE [ kind |-> "multi_pass_refinement",
           original_text |-> ps[1].input_text,
           final_text |-> ps[Len(ps)].input_text,
           all_improvements |-> AllImprovements(ps),
           overall_metrics |->
               [ total_passes |-> Len(ps),
                 initial_quality |-> ps[1].quality_score,
                 final_quality |-> ps[Len(ps)].quality_score,
                 quality_improvement |->
                     ps[Len(ps)].quality_score - ps[1].quality_score,
                 total_improvements |-> Len(AllImprovements(ps)),
                 convergence_achieved |->
                     ps[Len(ps)].quality_score >= min_quality_threshold ],
           pass_summary |-> PassSummary(ps) ]

\* _compile_multi_pass_results: the returned dict
CompileMultiPassResults(ps) ==
    IF ps = << >> THEN ErrorReport
    ELSE [ kind |-> "multi_pass_refinement",
           original_text |-> ps[1].input_text,
           final_text |-> ps[Len(ps)].output_text,
           all_improvements |-> AllImprovements(ps),
           overall_metrics |->
               [ total_passes |-> Len(ps),
                 initial_quality |-> ps[1].quality_score,
                 final_quality |-> ps[Len(ps)].quality_score,
                 quality_improvement |->
                     ps[Len(ps)].quality_score - ps[1].quality_score,
                 total_improvements |-> Len(AllImprovements(ps)),
                 convergence_achieved |->
                     ps[Len(ps)].quality_score >= min_quality_threshold ],
           pass_summary |-> PassSummary(ps) ]

(* ---------------------------------------------------------------------- *)
(* The state machine of a run                                             *)
(* ---------------------------------------------------------------------- *)

\* the value of last_result before the detector has been queried
NoResult == [ op |-> "none" ]

\* ConvergenceDetector(): both history lists empty
DetectorFresh ==
    /\ quality_history = << >>
    /\ improvement_history = << >>
    /\ adds = 0
    /\ last_result = NoResult
    /\ cleared = FALSE

\* the keys callers use
Keys == {"k1", "k2", "k3"}

\* the threads that call the cache
Threads == {"t1", "t2"}

\* the lock is not held
Free == "free"

\* Python's None as a cached value or a return value
NoneValue == "None"

\* ttl=None
NoTtl == 0

\* no entry is stored under a key
NoEntry == [ stored |-> FALSE, value |-> NoneValue, expiry |-> 0 ]

\* arguments the wrapped function is called with
Args == {"a1", "a2"}

\* a thread that is in no call
IdleThread ==
    [ pc |-> "idle", op |-> "none", key |-> "k1", value |-> NoneValue,
      expiry |-> 0, lru |-> "k1", result |-> NoneValue,
      hit |-> FALSE,
      stats |-> [ size |-> 0, hits |-> 0, misses |-> 0, total_requests |-> 0 ],
      before |-> [ cache |-> [k \in Keys |-> NoEntry], order |-> << >>,
                   now |-> 0, hits |-> 0, misses |-> 0 ],
      wpc |-> "none", arg |-> "a1" ]

\* no function is wrapped
NotWrapped ==
    [ ttl |-> NoTtl, persistent |-> FALSE,
      returns |-> [a \in Args |-> NoneValue] ]

\* InMemoryCache(): nothing stored, nothing counted, nobody inside
CacheFresh ==
    /\ cache = [k \in Keys |-> NoEntry]
    /\ access_order = << >>
    /\ hits = 0
    /\ misses = 0
    /\ lock = Free
    /\ now = 0
    /\ th = [t \in Threads |-> IdleThread]
    /\ gets_done = 0
    /\ recency = << >>
    /\ files = [k \in Keys |-> NoneValue]
    /\ executions = [a \in Args |-> 0]

\* no cache is involved
CacheIdle ==
    /\ max_size = 1
    /\ default_ttl = 1
    /\ wrapped = NotWrapped
    /\ CacheFresh

\* the value of sample and quality_metrics before the quality model is called
NoSample == [ kind |-> "none" ]

\* analyze_comprehensive_quality not called
QualityIdle ==
    /\ sample = NoSample
    /\ quality_metrics = NoSample

\* MultiPassProcessor(coordinator, max_passes) followed by the assignment of
\* the two thresholds (create_custom_processor); no run started yet
Init ==
    /\ max_passes \in MaxPassesChoices
    /\ convergence_threshold \in ConvergenceChoices
    /\ min_quality_threshold \in MinQualityChoices
    /\ pc = "idle"
    /\ text = << >>
    /\ passes = << >>
    /\ current_text = << >>
    /\ previous_quality = 0
    /\ quality_score = 0
    /\ final_validation = NoScore
    /\ iter = 0
    /\ calls = 0
    /\ reason = "none"
    /\ heap = [o \in Objs |-> Untagged]
    /\ report = NoReport
    /\ DetectorFresh
    /\ QualityIdle
    /\ CacheIdle

\* process_with_multiple_passes(t), up to the first pipeline call
StartRun(t) ==
    /\ pc = "idle"
    /\ Len(PassRange) > 0
    /\ text' = t
    /\ passes' = << >>
    /\ current_text' = t
    /\ previous_quality' = 0
    /\ pc' = "running"
    /\ UNCHANGED << config, quality_score, final_validation, iter, calls,
                    reason, heap, report >>
    /\ UNCHANGED << detVars, qualVars, cacheVars >>

\* process_with_multiple_passes(t) when the loop range is empty: no pass is
\* made and _compile_multi_pass_results returns the error dict
StartEmptyLoop(t) ==
    /\ pc = "idle"
    /\ Len(PassRange) = 0
    /\ text' = t
    /\ passes' = << >>
    /\ current_text' = t
    /\ previous_quality' = 0
    /\ report' = CompileMultiPassResults(<< >>)
    /\ pc' = "done"
    /\ UNCHANGED << config, quality_score, final_validation, iter, calls,
                    reason, heap >>
    /\ UNCHANGED << detVars, qualVars, cacheVars >>

\* the exception of coordinator.process_text swallowed: the run returns what
\* _compile_multi_pass_results makes of the passes recorded so far
PipelineRaisesPartialReport ==
    /\ pc = "running"
    /\ iter' = iter + 1
    /\ calls' = calls + 1
    /\ heap' = CompiledHeap(heap, passes)
    /\ report' = CompileMultiPassResults(passes)
    /\ pc' = "raised"
    /\ UNCHANGED << config, text, passes, current_text, previous_quality,
                    quality_score, final_validation, reason >>
    /\ UNCHANGED << detVars, qualVars, cacheVars >>

\* coordinator.process_text raises: the exception leaves the run
PipelineRaises ==
    /\ pc = "running"
    /\ iter' = iter + 1
    /\ calls' = calls + 1
    /\ pc' = "raised"
    /\ UNCHANGED << config, text, passes, current_text, previous_quality,
                    quality_score, final_validation, reason, heap, report >>
    /\ UNCHANGED << detVars, qualVars, cacheVars >>

\* the pipeline returns, and line 110 divides by the empty input's length
PassZeroDivision(out, impr, fv) ==
    /\ pc = "running"
    /\ MetricsRaises(current_text, out)
    /\ iter' = iter + 1
    /\ calls' = calls + 1
    /\ final_validation' = fv
    /\ quality_score' = QualityScoreOf(fv)
    /\ pc' = "zerodiv"
    /\ UNCHANGED << config, text, passes, current_text, previous_quality,
                    reason, heap, report >>
    /\ UNCHANGED << detVars, qualVars, cacheVars >>

\* the RefinementPass built by one loop iteration
CurrentPass(out, impr, fv) ==
    [ pass_number |-> PassRange[iter + 1],
      input_text |-> current_text,
      output_text |-> out,
      improvements |-> impr,
      quality_score |-> QualityScoreOf(fv),
      convergence_metrics |->
          CalculateConvergenceMetrics(current_text, out, previous_quality,
                                      QualityScoreOf(fv)) ]

\* _should_continue_processing applied to the pass of this iteration
Decision(out, impr, fv) ==
    ShouldContinueProcessing(CurrentPass(out, impr, fv), previous_quality,
                             PassRange[iter + 1])

\* one loop iteration that goes on to the next pass and hands it the text the
\* run started the current pass with
PassContinueSameInput(out, impr, fv) ==
    /\ pc = "running"
    /\ ~MetricsRaises(current_text, out)
    /\ Decision(out, impr, fv)[1]
    /\ iter + 1 < Len(PassRange)
    /\ iter' = iter + 1
    /\ calls' = calls + 1
    /\ final_validation' = fv
    /\ quality_score' = QualityScoreOf(fv)
    /\ passes' = Append(passes, CurrentPass(out, impr, fv))
    /\ reason' = Decision(out, impr, fv)[2]
    /\ current_text' = current_text
    /\ previous_quality' = QualityScoreOf(fv)
    /\ UNCHANGED << config, pc, text, heap, report >>
    /\ UNCHANGED << detVars, qualVars, cacheVars >>

\* one loop iteration that goes on to the next pass
PassContinue(out, impr, fv) ==
    /\ pc = "running"
    /\ ~MetricsRaises(current_text, out)
    /\ Decision(out, impr, fv)[1]
    /\ iter + 1 < Len(PassRange)
    /\ iter' = iter + 1
    /\ calls' = calls + 1
    /\ final_validation' = fv
    /\ quality_score' = QualityScoreOf(fv)
    /\ passes' = Append(passes, CurrentPass(out, impr, fv))
    /\ reason' = Decision(out, impr, fv)[2]
    /\ current_text' = out
    /\ previous_quality' = QualityScoreOf(fv)
    /\ UNCHANGED << config, pc, text, heap, report >>
    /\ UNCHANGED << detVars, qualVars, cacheVars >>

\* one loop iteration that ends the loop (break, or the range is used up),
\* followed by _compile_multi_pass_results and the return
PassStop(out, impr, fv) ==
    /\ pc = "running"
    /\ ~MetricsRaises(current_text, out)
    /\ \/ ~Decision(out, impr, fv)[1]
       \/ iter + 1 >= Len(PassRange)
    /\ iter' = iter + 1
    /\ calls' = calls + 1
    /\ final_validation' = fv
    /\ quality_score' = QualityScoreOf(fv)
    /\ passes' = Append(passes, CurrentPass(out, impr, fv))
    /\ reason' = Decision(out, impr, fv)[2]
    /\ IF Decision(out, impr, fv)[1]
       THEN /\ current_text' = out
            /\ previous_quality' = QualityScoreOf(fv)
       ELSE UNCHANGED << current_text, previous_quality >>
    /\ heap' = CompiledHeap(heap, passes')
    /\ report' = CompileMultiPassResults(passes')
    /\ pc' = "done"
    /\ UNCHANGED << config, text >>
    /\ UNCHANGED << detVars, qualVars, cacheVars >>

Next ==
    \/ \E t \in Texts : StartRun(t)
    \/ \E t \in Texts : StartEmptyLoop(t)
    \/ PipelineRaises
    \/ \E out \in Texts, impr \in ImprovementLists, fv \in Scores \cup {NoScore} :
           PassZeroDivision(out, impr, fv)
    \/ \E out \in Texts, impr \in ImprovementLists, fv \in Scores \cup {NoScore} :
           PassContinue(out, impr, fv)
    \/ \E out \in Texts, impr \in ImprovementLists, fv \in Scores \cup {NoScore} :
           PassStop(out, impr, fv)

Spec == Init /\ [][Next]_vars

(* ---------------------------------------------------------------------- *)
(* Notions the properties are stated with                                 *)
(* ---------------------------------------------------------------------- *)

NPasses == Len(passes)

\* the run has returned a report built from at least one pass
Completed == pc = "done" /\ report.kind = "multi_pass_refinement"

ScoreOfPass(k) == passes[k].quality_score

\* the pipeline changed the text in pass k
Changed(k) == passes[k].output_text # passes[k].input_text

\* score of pass k minus score of pass k-1 (the score itself on pass 1)
Improvement(k) == IF k = 1 THEN ScoreOfPass(1)
                  ELSE ScoreOfPass(k) - ScoreOfPass(k - 1)

\* the four stop conditions of pass k, from the recorded data
CondMaxPasses(k) == k >= max_passes
CondQuality(k) == ScoreOfPass(k) >= min_quality_threshold
CondConvergence(k) == k > 1 /\ Improvement(k) < convergence_threshold
CondNoChanges(k) == ~Changed(k)

StopHolds(k) ==
    CondMaxPasses(k) \/ CondQuality(k) \/ CondConvergence(k) \/ CondNoChanges(k)

\* the reason of the first stop condition that holds for pass k
FirstReason(k) ==
    IF CondMaxPasses(k) THEN MaxPassesReason
    ELSE IF CondQuality(k) THEN QualityReason
    ELSE IF CondConvergence(k) THEN ConvergenceReason
    ELSE IF CondNoChanges(k) THEN NoChangesReason
    ELSE ContinueReason

\* the state of the run in the terms of the specification's state machine
RunState ==
    CASE pc = "idle" -> "NOT_STARTED"
      [] pc = "running" -> "RUNNING"
      [] pc = "raised" -> "PIPELINE_FAILURE"
      [] pc = "zerodiv" -> "ZERO_DIVISION"
      [] pc = "done" /\ reason = MaxPassesReason -> "MAX_PASSES"
      [] pc = "done" /\ reason = QualityReason -> "QUALITY_MET"
      [] pc = "done" /\ reason = ConvergenceReason -> "CONVERGED"
      [] pc = "done" /\ reason = NoChangesReason -> "NO_CHANGE"
      [] OTHER -> "NO_PASSES"

TerminalOutcomes == {"MAX_PASSES", "QUALITY_MET", "CONVERGED", "NO_CHANGE"}

(* ---------------------------------------------------------------------- *)
(* C1                                                                     *)
(* ---------------------------------------------------------------------- *)

C2_StopOrder ==
    \A k \in 1..NPasses :
        /\ k < NPasses => ~StopHolds(k)
        /\ k = NPasses =>
              /\ reason = FirstReason(k)
              /\ (pc = "done") <=> StopHolds(k)

\* a run stopped by minimal improvement on a pass that also left the text
\* unchanged: the earlier condition gives the reason
C2_Witness ==
    /\ pc = "done" /\ NPasses >= 2
    /\ reason = ConvergenceReason
    /\ CondNoChanges(NPasses)

(* ---------------------------------------------------------------------- *)
(* C3                                                                     *)
(* ---------------------------------------------------------------------- *)

\* the first pipeline call has returned a result
FirstCallReturned == NPasses >= 1 \/ (pc = "zerodiv" /\ calls = 1)

\* the quality score of the first pipeline result
FirstScore == IF NPasses >= 1 THEN ScoreOfPass(1) ELSE quality_score

C4_UnchangedStops ==
    \A k \in 1..NPasses :
        passes[k].output_text = passes[k].input_text =>
            /\ k = NPasses
            /\ pc = "done"
            /\ calls = k

\* pass 2 left the text unchanged while improving enough and with passes left:
\* only the unchanged text stops the run
C4_Witness ==
    /\ pc = "done" /\ NPasses = 2 /\ max_passes > 2
    /\ ~Changed(2)
    /\ ~CondQuality(2) /\ ~CondConvergence(2)
    /\ reason = NoChangesReason

(* ---------------------------------------------------------------------- *)
(* C5                                                                     *)
(* ---------------------------------------------------------------------- *)

\* C5: with a valid configuration and a pipeline whose calls return, a run
\* that has started is RUNNING or in exactly one of the terminal outcomes
\* MAX_PASSES, QUALITY_MET, CONVERGED, NO_CHANGE, it makes at most max_passes
\* pipeline calls, and once it has left RUNNING no pass is recorded.
C5_TerminalOutcomes ==
    (ValidConfig /\ pc \notin {"idle", "raised"}) =>
        /\ RunState \in {"RUNNING"} \cup TerminalOutcomes
        /\ calls <= max_passes
        /\ pc = "running" => calls < max_passes

(* ---------------------------------------------------------------------- *)
(* C6                                                                     *)
(* ---------------------------------------------------------------------- *)

\* Scenario A: max_passes 2, convergence_threshold 0.02, min_quality_threshold
\* 0.95; the run has returned, pass 1 changed the text, pass 2 (if made) did
\* not, and every score is below 0.95
ScenarioA ==
    /\ max_passes = 2 /\ convergence_threshold = 2 /\ min_quality_threshold = 95
    /\ Completed
    /\ Changed(1)
    /\ NPasses >= 2 => ~Changed(2)
    /\ \A k \in 1..NPasses : ScoreOfPass(k) < 95

\* C6 as stated: in scenario A total_passes is 2, the stop reason of pass 2
\* is "no changes made" and final_text is the output of pass 1.
C6_ScenarioA_NoChanges ==
    ScenarioA =>
        /\ report.overall_metrics.total_passes = 2
        /\ reason = NoChangesReason
        /\ report.final_text = passes[1].output_text

\* C6 amended: in scenario A total_passes is 2, the stop reason of pass 2 is
\* "maximum passes reached" and final_text is the output of pass 1.
C6_ScenarioA_MaxPasses ==
    ScenarioA =>
        /\ report.overall_metrics.total_passes = 2
        /\ NPasses = 2
        /\ reason = MaxPassesReason
        /\ report.final_text = passes[1].output_text

\* scenario A has run to its end
C6_Witness == ScenarioA /\ NPasses = 2 /\ calls = 2

(* ---------------------------------------------------------------------- *)
(* C7                                                                     *)
(* ---------------------------------------------------------------------- *)

\* Scenario B: max_passes >= 1, min_quality_threshold <= 0.97 and the first
\* pipeline call returned the score 0.97
ScenarioB ==
    /\ max_passes >= 1 /\ min_quality_threshold <= 97
    /\ FirstCallReturned /\ FirstScore = 97

ScenarioC ==
    /\ convergence_threshold = 2 /\ max_passes > 3
    /\ NPasses >= 2
    /\ \A k \in 1..NPasses : ScoreOfPass(k) < min_quality_threshold /\ Changed(k)
    /\ ScoreOfPass(2) - ScoreOfPass(1) >= 2

\* C8: the minimal-improvement rule never stops a run at pass 1 and, when it
\* stops a run at a later pass, that pass's score exceeds the previous pass's
\* score by less than the threshold; in scenario C the run has not stopped
\* after pass 2, and when pass 3 improves on pass 2 by exactly 0.01 the run
\* stops after pass 3 with "convergence detected".
C8_MinimalImprovement ==
    /\ (pc = "done" /\ reason = ConvergenceReason) =>
          /\ NPasses >= 2
          /\ ScoreOfPass(NPasses) - ScoreOfPass(NPasses - 1)
                 < convergence_threshold
    /\ ScenarioC =>
          /\ NPasses = 2 => pc # "done"
          /\ (NPasses >= 3 /\ ScoreOfPass(3) - ScoreOfPass(2) = 1) =>
                /\ NPasses = 3
                /\ pc = "done"
                /\ reason = ConvergenceReason

\* scenario C stopped after pass 3
C8_Witness ==
    /\ ScenarioC /\ NPasses = 3 /\ pc = "done"
    /\ ScoreOfPass(3) - ScoreOfPass(2) = 1

(* ---------------------------------------------------------------------- *)
(* C9                                                                     *)
(* ---------------------------------------------------------------------- *)

\* C9: the report of a completed run with k >= 1 passes has original_text =
\* the text given to the run, final_text = the output of pass k, total_passes
\* = k, initial_quality = the score of pass 1, final_quality = the score of
\* pass k, quality_improvement = final_quality - initial_quality,
\* convergence_achieved = (final_quality >= min_quality_threshold), and one
\* pass_summary row per pass, in pass order.
C9_Report ==
    Completed =>
        LET m == report.overall_metrics IN
        /\ NPasses >= 1
        /\ report.original_text = text
        /\ report.final_text = passes[NPasses].output_text
        /\ m.total_passes = NPasses
        /\ m.total_passes = calls
        /\ m.initial_quality = ScoreOfPass(1)
        /\ m.final_quality = ScoreOfPass(NPasses)
        /\ m.quality_improvement = m.final_quality - m.initial_quality
        /\ m.convergence_achieved <=> (m.final_quality >= min_quality_threshold)
        /\ Len(report.pass_summary) = NPasses
        /\ \A i \in 1..NPasses :
              /\ report.pass_summary[i].pass = i
              /\ report.pass_summary[i].quality = ScoreOfPass(i)
              /\ report.pass_summary[i].improvements = Len(passes[i].improvements)
              /\ report.pass_summary[i].changes_made = Changed(i)

\* a completed run of three passes whose last pass changed the text and the
\* score
C9_Witness ==
    /\ Completed /\ NPasses = 3
    /\ Changed(3)
    /\ ScoreOfPass(3) # ScoreOfPass(1)
    /\ text # report.final_text

(* ---------------------------------------------------------------------- *)
(* C10                                                                    *)
(* ---------------------------------------------------------------------- *)

\* the sum of the improvement counts of the passes ps
RECURSIVE SumImprovements(_)
SumImprovements(ps) ==
    IF ps = << >> THEN 0
    ELSE Len(Head(ps).improvements) + SumImprovements(Tail(ps))

\* the pass that returned the i-th record of the aggregated list
OriginOf(i) == Visits(passes)[i][2]

\* C10: in the report every improvement record carries the pass_number of the
\* pass in which the pipeline returned it, the aggregated list keeps pass
\* order then within-pass order, and total_improvements is the sum of the
\* passes' improvement counts, also when one record is returned in several
\* passes.
C10_TaggedImprovements ==
    Completed =>
        LET all == report.all_improvements IN
        /\ Len(all) = SumImprovements(passes)
        /\ report.overall_metrics.total_improvements = SumImprovements(passes)
        /\ \A i \in 1..Len(all) :
              /\ all[i] = Visits(passes)[i][1]
              /\ heap[all[i]] = OriginOf(i)
        /\ \A i, j \in 1..Len(all) : i < j => OriginOf(i) <= OriginOf(j)

(* ---------------------------------------------------------------------- *)
(* The quality model: QualityAnalyzer.analyze_comprehensive_quality       *)
(*                                                                        *)
(* A text is given by what the tokenisation and the pattern searches      *)
(* extract from it: words is len(text.split()), sentence_lengths the word *)
(* count of every extracted sentence, and so on.  Scores are thousandths  *)
(* (0.85 is 850), divisions truncate.  Of the thirteen QualityMetrics     *)
(* fields the model keeps overall_quality and the five it is made of.     *)
(* ---------------------------------------------------------------------- *)

Max(a, b) == IF a > b THEN a ELSE b

Clamp(lo, hi, x) == Max(lo, Min(hi, x))

RECURSIVE SumSeq(_)
SumSeq(q) == IF q = << >> THEN 0 ELSE Head(q) + SumSeq(Tail(q))

\* the word counts of the sentences _extract_sentences finds
SentenceLengthChoices ==
    { << >>, <<3>>, <<12>>, <<12, 12>>, <<4, 30>>, <<250>>,
      <<2, 2, 2, 2, 2, 2>> }

\* len(text.split())
WordCountChoices == {0, 1, 12, 250}

\* syllables per word, the same for every word of the text
SyllablesPerWordChoices == {1, 4}

\* the paragraphs of the text
ParagraphChoices == {1, 2}

\* matches of the passive-voice patterns
PassiveChoices == {0, 1, 3}

\* flow indicators found in the text
FlowChoices == {0, 1, 6}

\* << distinct content words, content words occurring more than once >>
ContentWordChoices == { <<0, 0>>, <<4, 0>>, <<4, 2>>, <<3, 3>> }

\* << context has agent_results, number of grammar corrections in it >>
GrammarContextChoices == { <<FALSE, 0>>, <<TRUE, 0>>, <<TRUE, 1>>, <<TRUE, 9>> }

\* the texts the quality model is applied to; every text with a sentence has
\* a word
Samples ==
    { sm \in [ kind : {"text"},
               words : WordCountChoices,
               sentence_lengths : SentenceLengthChoices,
               syllables_per_word : SyllablesPerWordChoices,
               paragraphs : ParagraphChoices,
               passive_count : PassiveChoices,
               flow_count : FlowChoices,
               content_words : ContentWordChoices,
               grammar_context : GrammarContextChoices ] :
        sm.sentence_lengths # << >> => sm.words >= 1 }

\* the empty string
EmptySample ==
    [ kind |-> "text", words |-> 0, sentence_lengths |-> << >>,
      syllables_per_word |-> 1, paragraphs |-> 1, passive_count |-> 0,
      flow_count |-> 0, content_words |-> <<0, 0>>,
      grammar_context |-> <<FALSE, 0>> ]

NSentences(sm) == Len(sm.sentence_lengths)

\* the Flesch score in hundredths: 206.84 - 1.02 * avg_sentence_length
\* - 0.60 * avg_syllables_per_word
FleschScore(sm) ==
    20684 - ((102 * sm.words) \div NSentences(sm))
          - ((60 * sm.syllables_per_word * sm.words) \div sm.words)

\* the readability without the clamp to [0, 100]
CalculateReadabilityUnclamped(sm) ==
    IF NSentences(sm) = 0 \/ sm.words = 0 THEN 0
    ELSE FleschScore(sm) \div 10

\* _calculate_readability
CalculateReadability(sm) ==
    IF NSentences(sm) = 0 \/ sm.words = 0 THEN 0
    ELSE Clamp(0, 10000, FleschScore(sm)) \div 10

\* the number of different sentence lengths
DistinctLengths(sm) ==
    Cardinality({ sm.sentence_lengths[i] : i \in 1..NSentences(sm) })

\* _analyze_text_structure
AnalyzeTextStructure(sm) ==
    LET para == IF sm.paragraphs > 1
                   /\ ~( 2 * sm.paragraphs <= NSentences(sm)
                         /\ NSentences(sm) <= 8 * sm.paragraphs )
                THEN 800 ELSE 1000
        variety == IF 10 * DistinctLengths(sm) > 3 * NSentences(sm)
                   THEN 1000 ELSE 900
    IN  Min(1000, (para * variety) \div 1000)

\* _calculate_clarity_score
CalculateClarityScore(sm) ==
    LET n == NSentences(sm)
        total == SumSeq(sm.sentence_lengths)
        active == Max(500, 1000 - (IF n > 0
                                   THEN (1000 * sm.passive_count) \div n
                                   ELSE 0))
        length == IF 10 * n <= total /\ total <= 25 * n THEN 1000 ELSE 700
        flow == IF n <= 5 THEN Min(1000, 1000 * sm.flow_count)
                ELSE Min(1000, (5000 * sm.flow_count) \div n)
    IN  IF n > 0 THEN (active + length + flow) \div 3
        ELSE (active + flow) \div 2

\* _calculate_coherence_score
CalculateCoherenceScore(sm) ==
    IF NSentences(sm) < 2 THEN 1000
    ELSE LET distinct == sm.content_words[1]
             repeated == sm.content_words[2]
             repetition == IF distinct > 0
                           THEN Min(1000, (1000 * repeated) \div distinct)
                           ELSE 0
         IN  Min(1000, 800 + (repetition * 200) \div 1000)

\* _estimate_grammar_accuracy
EstimateGrammarAccuracy(sm) ==
    IF sm.grammar_context[1]
    THEN IF sm.grammar_context[2] > 0
         THEN Max(300, 900 - (IF sm.words <= 10
                              THEN 100 * sm.grammar_context[2]
                              ELSE (1000 * sm.grammar_context[2]) \div sm.words))
         ELSE 950
    ELSE 800

\* the weights of _calculate_overall_quality, in hundredths
Weights ==
    [ readability |-> 25, clarity |-> 25, grammar |-> 20, structure |-> 15,
      coherence |-> 15 ]

\* _calculate_overall_quality
CalculateOverallQuality(m) ==
    LET weighted == m.readability * Weights.readability
                    + m.clarity * Weights.clarity
                    + m.grammar * Weights.grammar
                    + m.structure * Weights.structure
                    + m.coherence * Weights.coherence
        total == Weights.readability + Weights.clarity + Weights.grammar
                 + Weights.structure + Weights.coherence
    IN  IF total > 0 THEN weighted \div total ELSE 500

\* QualityMetrics(0, 0, 0, 0, 0, 0, 0, 0, 0, 0, 0, 0, 0)
ZeroMetrics ==
    [ kind |-> "metrics", readability |-> 0, clarity |-> 0, grammar |-> 0,
      structure |-> 0, coherence |-> 0, overall_quality |-> 0 ]

\* analyze_comprehensive_quality
AnalyzeComprehensiveQuality(sm) ==
    IF NSentences(sm) = 0 \/ sm.words = 0 THEN ZeroMetrics
    ELSE LET m == [ readability |-> CalculateReadability(sm),
                    clarity |-> CalculateClarityScore(sm),
                    grammar |-> EstimateGrammarAccuracy(sm),
                    structure |-> AnalyzeTextStructure(sm),
                    coherence |-> CalculateCoherenceScore(sm) ]
         IN  [ kind |-> "metrics",
               readability |-> m.readability,
               clarity |-> m.clarity,
               grammar |-> m.grammar,
               structure |-> m.structure,
               coherence |-> m.coherence,
               overall_quality |-> CalculateOverallQuality(m) ]

\* no processor run and no detector is involved
ProcessorIdle ==
    /\ max_passes = 3
    /\ convergence_threshold = 5
    /\ min_quality_threshold = 85
    /\ pc = "idle"
    /\ text = << >>
    /\ passes = << >>
    /\ current_text = << >>
    /\ previous_quality = 0
    /\ quality_score = 0
    /\ final_validation = NoScore
    /\ iter = 0
    /\ calls = 0
    /\ reason = "none"
    /\ heap = [o \in Objs |-> Untagged]
    /\ report = NoReport

\* a text is at hand and analyze_comprehensive_quality has not been called
QualInit ==
    /\ ProcessorIdle
    /\ DetectorFresh
    /\ CacheIdle
    /\ sample \in Samples
    /\ quality_metrics = NoSample

\* the call analyze_comprehensive_quality(text, context) on the text at hand
Analyze ==
    /\ quality_metrics = NoSample
    /\ quality_metrics' = AnalyzeComprehensiveQuality(sample)
    /\ UNCHANGED << procVars, detVars, sample, cacheVars >>

QualNext == Analyze

QualSpec == QualInit /\ [][QualNext]_vars

(* ---------------------------------------------------------------------- *)
(* The convergence detector: ConvergenceDetector and                      *)
(* QualityAnalyzer.detect_convergence                                     *)
(*                                                                        *)
(* An entry of quality_history is a QualityMetrics, an entry of           *)
(* improvement_history keeps len(entry['improvements']).  Qualities,      *)
(* thresholds and confidences are thousandths.                            *)
(* ---------------------------------------------------------------------- *)

\* convergence_thresholds['minimal_improvement']
MinimalImprovement == 20

\* convergence_thresholds['high_quality']
HighQuality == 850

\* convergence_thresholds['excellent_quality']
ExcellentQuality == 950

\* convergence_thresholds['stability_threshold']
StabilityThreshold == 10

\* the quality above which saturated improvements call for a manual review
ManualReviewQuality == 600

\* the entries add_processing_result keeps in each history list
HistoryCapacity == 10

\* calls of add_processing_result followed between two resets
MaxAdds == 12

\* the longest history detect_convergence is applied to on its own
DecHistoryBound == 3

Last(q) == q[Len(q)]

\* q[-n:]
LastN(q, n) == SubSeq(q, Max(1, Len(q) - n + 1), Len(q))

\* [m.overall_quality for m in qh]
OverallQualities(qh) == [ i \in 1..Len(qh) |-> qh[i].overall_quality ]

SeqMax(q) == CHOOSE x \in { q[i] : i \in 1..Len(q) } :
                 \A i \in 1..Len(q) : q[i] <= x

SeqMin(q) == CHOOSE x \in { q[i] : i \in 1..Len(q) } :
                 \A i \in 1..Len(q) : q[i] >= x

\* _detect_quality_plateau
DetectQualityPlateau(qh) ==
    IF Len(qh) < 3 THEN FALSE
    ELSE LET recent_scores == LastN(OverallQualities(qh), 3)
         IN  SeqMax(recent_scores) - SeqMin(recent_scores) < StabilityThreshold

\* _detect_stability
DetectStability(qh) ==
    IF Len(qh) < 2 THEN FALSE
    ELSE LET last_two == LastN(OverallQualities(qh), 2)
         IN  Abs(last_two[2] - last_two[1]) < StabilityThreshold

\* _detect_improvement_saturation
DetectImprovementSaturation(ih) ==
    IF Len(ih) < 2 THEN FALSE
    ELSE LET recent == LastN(ih, 2)
         IN  \A i \in 1..2 : recent[i].improvements <= 1

\* sum(analysis.values())
ConvergenceIndicators(analysis) ==
    Cardinality({ k \in DOMAIN analysis : analysis[k] })

\* the status with the plateau rule tried before the indicator count
DetermineConvergenceStatusPlateauFirst(analysis, current) ==
    IF current.overall_quality >= ExcellentQuality
    THEN [ converged |-> TRUE, reason |-> "Excellent quality achieved",
           confidence |-> 950 ]
    ELSE IF analysis.quality_plateau /\ analysis.stability_achieved
    THEN [ converged |-> TRUE, reason |-> "Quality plateau with stability",
           confidence |-> 750 ]
    ELSE IF ConvergenceIndicators(analysis) >= 3
    THEN [ converged |-> TRUE,
           reason |-> "Multiple convergence indicators detected",
           confidence |-> 800 ]
    ELSE IF current.overall_quality >= HighQuality
            /\ ConvergenceIndicators(analysis) >= 2
    THEN [ converged |-> TRUE,
           reason |-> "High quality with convergence indicators",
           confidence |-> 850 ]
    ELSE [ converged |-> FALSE, reason |-> "Convergence not detected",
           confidence |-> 600 ]

\* the status with the high-quality rule tried before the indicator count
DetermineConvergenceStatusHighQualityFirst(analysis, current) ==
    IF current.overall_quality >= ExcellentQuality
    THEN [ converged |-> TRUE, reason |-> "Excellent quality achieved",
           confidence |-> 950 ]
    ELSE IF current.overall_quality >= HighQuality
            /\ ConvergenceIndicators(analysis) >= 2
    THEN [ converged |-> TRUE,
           reason |-> "High quality with convergence indicators",
           confidence |-> 850 ]
    ELSE IF ConvergenceIndicators(analysis) >= 3
    THEN [ converged |-> TRUE,
           reason |-> "Multiple convergence indicators detected",
           confidence |-> 800 ]
    ELSE IF analysis.quality_plateau /\ analysis.stability_achieved
    THEN [ converged |-> TRUE, reason |-> "Quality plateau with stability",
           confidence |-> 750 ]
    ELSE [ converged |-> FALSE, reason |-> "Convergence not detected",
           confidence |-> 600 ]

\* _determine_convergence_status
DetermineConvergenceStatus(analysis, current) ==
    IF current.overall_quality >= ExcellentQuality
    THEN [ converged |-> TRUE, reason |-> "Excellent quality achieved",
           confidence |-> 950 ]
    ELSE IF ConvergenceIndicators(analysis) >= 3
    THEN [ converged |-> TRUE,
           reason |-> "Multiple convergence indicators detected",
           confidence |-> 800 ]
    ELSE IF current.overall_quality >= HighQuality
            /\ ConvergenceIndicators(analysis) >= 2
    THEN [ converged |-> TRUE,
           reason |-> "High quality with convergence indicators",
           confidence |-> 850 ]
    ELSE IF analysis.quality_plateau /\ analysis.stability_achieved
    THEN [ converged |-> TRUE, reason |-> "Quality plateau with stability",
           confidence |-> 750 ]
    ELSE [ converged |-> FALSE, reason |-> "Convergence not detected",
           confidence |-> 600 ]

\* the recommendation that stops on high quality whether stable or not
GenerateConvergenceRecommendationNoStability(analysis, current, ih) ==
    IF current.overall_quality >= ExcellentQuality THEN "stop_excellent"
    ELSE IF current.overall_quality >= HighQuality THEN "stop_good"
    ELSE IF analysis.improvement_saturation
            /\ current.overall_quality > ManualReviewQuality
    THEN "manual_review"
    ELSE IF ConvergenceIndicators(analysis) >= 2 THEN "stop_convergence"
    ELSE "continue"

\* the recommendation with the manual review offered at quality 0.6 already
GenerateConvergenceRecommendationInclusive(analysis, current, ih) ==
    IF current.overall_quality >= ExcellentQuality THEN "stop_excellent"
    ELSE IF current.overall_quality >= HighQuality
    THEN IF analysis.stability_achieved THEN "stop_good"
         ELSE "continue_cautiously"
    ELSE IF analysis.improvement_saturation
            /\ current.overall_quality >= ManualReviewQuality
    THEN "manual_review"
    ELSE IF ConvergenceIndicators(analysis) >= 2 THEN "stop_convergence"
    ELSE "continue"

\* _generate_convergence_recommendation
GenerateConvergenceRecommendation(analysis, current, ih) ==
    IF current.overall_quality >= ExcellentQuality THEN "stop_excellent"
    ELSE IF current.overall_quality >= HighQuality
    THEN IF analysis.stability_achieved THEN "stop_good"
         ELSE "continue_cautiously"
    ELSE IF analysis.improvement_saturation
            /\ current.overall_quality > ManualReviewQuality
    THEN "manual_review"
    ELSE IF ConvergenceIndicators(analysis) >= 2 THEN "stop_convergence"
    ELSE "continue"

\* the dict detect_convergence returns for a history of fewer than two entries
InsufficientHistory ==
    [ converged |-> FALSE, reason |-> "Insufficient history",
      confidence |-> 0, recommendation |-> "continue" ]

\* detect_convergence asking for one entry only, the entry before the current
\* one being the current one when there is no other
DetectConvergenceOfOne(qh, ih) ==
    IF Len(qh) < 1 THEN InsufficientHistory
    ELSE LET current == Last(qh)
             previous == IF Len(qh) >= 2 THEN qh[Len(qh) - 1] ELSE Last(qh)
             improvement == current.overall_quality - previous.overall_quality
             convergence_analysis ==
                 [ quality_plateau |-> DetectQualityPlateau(qh),
                   minimal_improvement |-> improvement < MinimalImprovement,
                   high_quality_reached |->
                       current.overall_quality >= HighQuality,
                   stability_achieved |-> DetectStability(qh),
                   improvement_saturation |->
                       DetectImprovementSaturation(ih) ]
             status == DetermineConvergenceStatus(convergence_analysis,
                                                  current)
         IN  [ converged |-> status.converged,
               reason |-> status.reason,
               confidence |-> status.confidence,
               recommendation |->
                   GenerateConvergenceRecommendation(convergence_analysis,
                                                     current, ih),
               current_quality |-> current.overall_quality,
               improvement_rate |-> improvement,
               analysis_details |-> convergence_analysis ]

\* detect_convergence
DetectConvergence(qh, ih) ==
    IF Len(qh) < 2 THEN InsufficientHistory
    ELSE LET current == Last(qh)
             previous == qh[Len(qh) - 1]
             improvement == current.overall_quality - previous.overall_quality
             convergence_analysis ==
                 [ quality_plateau |-> DetectQualityPlateau(qh),
                   minimal_improvement |-> improvement < MinimalImprovement,
                   high_quality_reached |->
                       current.overall_quality >= HighQuality,
                   stability_achieved |-> DetectStability(qh),
                   improvement_saturation |->
                       DetectImprovementSaturation(ih) ]
             status == DetermineConvergenceStatus(convergence_analysis,
                                                  current)
         IN  [ converged |-> status.converged,
               reason |-> status.reason,
               confidence |-> status.confidence,
               recommendation |->
                   GenerateConvergenceRecommendation(convergence_analysis,
                                                     current, ih),
               current_quality |-> current.overall_quality,
               improvement_rate |-> improvement,
               analysis_details |-> convergence_analysis ]

\* the dict get_quality_trend returns
QualityTrend(qh) ==
    IF Len(qh) < 2
    THEN [ trend |-> "insufficient_data", direction |-> "unknown" ]
    ELSE LET recent_qualities == LastN(OverallQualities(qh), 3)
             n == Len(recent_qualities)
         IN  [ trend |-> "tracked",
               direction |->
                   IF recent_qualities[n] > recent_qualities[n - 1]
                   THEN "improving"
                   ELSE IF recent_qualities[n] < recent_qualities[n - 1]
                   THEN "declining"
                   ELSE "stable",
               current_quality |-> recent_qualities[n],
               quality_range |-> << SeqMin(recent_qualities),
                                    SeqMax(recent_qualities) >>,
               data_points |-> Len(qh) ]

\* the dict get_detailed_analysis returns, without its recommendations list
DetailedAnalysis(qh, ih) ==
    IF qh = << >> THEN [ status |-> "no_data" ]
    ELSE [ status |-> "analyzed",
           current_metrics |->
               [ overall_quality |-> Last(qh).overall_quality,
                 readability |-> Last(qh).readability,
                 clarity |-> Last(qh).clarity,
                 grammar_accuracy |-> Last(qh).grammar ],
           convergence_analysis |-> DetectConvergence(qh, ih),
           quality_trend |-> QualityTrend(qh) ]

\* one sentence of twelve short words with a flow indicator, analysed with
\* the results of a pass that corrected no grammar: overall quality 0.99
ExcellentSample ==
    [ kind |-> "text", words |-> 12, sentence_lengths |-> <<12>>,
      syllables_per_word |-> 1, paragraphs |-> 1, passive_count |-> 0,
      flow_count |-> 1, content_words |-> <<4, 0>>,
      grammar_context |-> <<TRUE, 0>> ]

\* the (text, results) pairs handed to add_processing_result: the text and
\* len(results['improvements'])
DetectorInputs ==
    { [ sample |-> EmptySample, improvements |-> 0 ],
      [ sample |-> ExcellentSample, improvements |-> 2 ] }

\* add_processing_result dropping the oldest quality only
AddProcessingResultQualityEviction(sm, n) ==
    /\ adds < MaxAdds
    /\ LET qh == Append(quality_history, AnalyzeComprehensiveQuality(sm))
           ih == Append(improvement_history, [ improvements |-> n ])
       IN  IF Len(qh) > HistoryCapacity
           THEN /\ quality_history' = Tail(qh)
                /\ improvement_history' = ih
           ELSE /\ quality_history' = qh
                /\ improvement_history' = ih
    /\ adds' = adds + 1
    /\ last_result' = [ op |-> "add" ]
    /\ UNCHANGED << cleared, procVars, qualVars, cacheVars >>

\* add_processing_result dropping the oldest entry on reaching ten entries
AddProcessingResultEarlyEviction(sm, n) ==
    /\ adds < MaxAdds
    /\ LET qh == Append(quality_history, AnalyzeComprehensiveQuality(sm))
           ih == Append(improvement_history, [ improvements |-> n ])
       IN  IF Len(qh) >= HistoryCapacity
           THEN /\ quality_history' = Tail(qh)
                /\ improvement_history' = Tail(ih)
           ELSE /\ quality_history' = qh
                /\ improvement_history' = ih
    /\ adds' = adds + 1
    /\ last_result' = [ op |-> "add" ]
    /\ UNCHANGED << cleared, procVars, qualVars, cacheVars >>

\* add_processing_result(text, results)
AddProcessingResult(sm, n) ==
    /\ adds < MaxAdds
    /\ LET qh == Append(quality_history, AnalyzeComprehensiveQuality(sm))
           ih == Append(improvement_history, [ improvements |-> n ])
       IN  IF Len(qh) > HistoryCapacity
           THEN /\ quality_history' = Tail(qh)
                /\ improvement_history' = Tail(ih)
           ELSE /\ quality_history' = qh
                /\ improvement_history' = ih
    /\ adds' = adds + 1
    /\ last_result' = [ op |-> "add" ]
    /\ UNCHANGED << cleared, procVars, qualVars, cacheVars >>

\* check_convergence()
CheckConvergence ==
    /\ last_result' = [ op |-> "check",
                        value |-> DetectConvergence(quality_history,
                                                    improvement_history) ]
    /\ UNCHANGED << quality_history, improvement_history, adds, cleared,
                    procVars, qualVars, cacheVars >>

\* get_quality_trend()
GetQualityTrend ==
    /\ last_result' = [ op |-> "trend",
                        value |-> QualityTrend(quality_history) ]
    /\ UNCHANGED << quality_history, improvement_history, adds, cleared,
                    procVars, qualVars, cacheVars >>

\* get_detailed_analysis()
GetDetailedAnalysis ==
    /\ last_result' = [ op |-> "analysis",
                        value |-> DetailedAnalysis(quality_history,
                                                   improvement_history) ]
    /\ UNCHANGED << quality_history, improvement_history, adds, cleared,
                    procVars, qualVars, cacheVars >>

\* reset_history forgetting the qualities only
ResetHistoryQualityOnly ==
    /\ quality_history' = << >>
    /\ improvement_history' = improvement_history
    /\ adds' = 0
    /\ cleared' = (cleared \/ quality_history # << >>)
    /\ last_result' = [ op |-> "reset" ]
    /\ UNCHANGED << procVars, qualVars, cacheVars >>

\* reset_history()
ResetHistory ==
    /\ quality_history' = << >>
    /\ improvement_history' = << >>
    /\ adds' = 0
    /\ cleared' = (cleared \/ quality_history # << >>)
    /\ last_result' = [ op |-> "reset" ]
    /\ UNCHANGED << procVars, qualVars, cacheVars >>

\* a detector has been constructed; no run and no analysis of its own go on
DetInit ==
    /\ ProcessorIdle
    /\ QualityIdle
    /\ CacheIdle
    /\ DetectorFresh

DetNext ==
    \/ \E inp \in DetectorInputs :
           AddProcessingResult(inp.sample, inp.improvements)
    \/ CheckConvergence
    \/ GetQualityTrend
    \/ GetDetailedAnalysis
    \/ ResetHistory

DetSpec == DetInit /\ [][DetNext]_vars

\* overall qualities of the entries detect_convergence is applied to; their
\* differences, which the code takes in binary floating point, compare with
\* the thresholds as the exact differences do
QualityChoices == {600, 601, 800, 805, 817, 850, 865, 950}

\* len(entry['improvements']) of those entries
ImprovementCountChoices == {1, 2}

\* a QualityMetrics of overall quality q; detect_convergence reads no other
\* field
MetricsOf(q) == [ ZeroMetrics EXCEPT !.overall_quality = q ]

\* the history lists of a detector holding n entries
HistoriesOfLength(n) ==
    [ quality : [ 1..n -> { MetricsOf(q) : q \in QualityChoices } ],
      improvement : [ 1..n -> { [ improvements |-> c ] :
                                    c \in ImprovementCountChoices } ] ]

\* a detector holds up to DecHistoryBound entries and check_convergence has
\* not been called
DecInit ==
    /\ ProcessorIdle
    /\ QualityIdle
    /\ CacheIdle
    /\ \E n \in 0..DecHistoryBound :
          \E h \in HistoriesOfLength(n) :
              /\ quality_history = h.quality
              /\ improvement_history = h.improvement
              /\ adds = n
    /\ last_result = NoResult
    /\ cleared = FALSE

DecNext == CheckConvergence

DecSpec == DecInit /\ [][DecNext]_vars

(* ---------------------------------------------------------------------- *)
(* The in-memory cache: InMemoryCache and PerformanceOptimizer.cached     *)
(* (src/performance_optimizer.py)                                         *)
(*                                                                        *)
(* A call of get, put, clear or get_stats enters its with self._lock      *)
(* block, runs the statements of the block one step at a time and leaves  *)
(* the block when it returns.  Of a CacheEntry the model keeps value and  *)
(* expiry_time; timestamp, access_count and last_access are written and   *)
(* never read.  The clock steps between calls: a call reads it once.      *)
(* ---------------------------------------------------------------------- *)

\* get calls followed between two clears
MaxGets == 3

\* the last instant of the clock
MaxTime == 2

\* InMemoryCache(max_size=200, ...) of a PerformanceOptimizer
OptimizerMaxSize == 200

\* InMemoryCache(..., default_ttl=1800) of a PerformanceOptimizer
OptimizerDefaultTtl == 1800

\* max_size of the caches called directly
MaxSizeChoices == {1, 2}

\* values put into the cache directly
CacheValues == {"v"}

\* ttl arguments of put and of the decorator
TtlChoices == {NoTtl, 2}

\* values the wrapped function returns: None, a falsy value, a string
FuncResults == {NoneValue, "0", "processed"}

\* _generate_key(func.__name__, *args, **kwargs): a key per argument
KeyOf(a) == IF a = "a1" THEN "k1" ELSE "k2"

\* the keys of self.cache
StoredKeys(c) == { k \in Keys : c[k].stored }

\* list.remove(k), a list without k left as it is
RECURSIVE RemoveFirst(_, _)
RemoveFirst(q, k) ==
    IF q = << >> THEN << >>
    ELSE IF Head(q) = k THEN Tail(q)
    ELSE << Head(q) >> \o RemoveFirst(Tail(q), k)

\* if key in self.access_order: remove(key); then append(key)
Touched(q, k) == Append(RemoveFirst(q, k), k)

\* ttl or self.default_ttl
EffectiveTtl(ttl) == IF ttl = NoTtl THEN default_ttl ELSE ttl

\* entry.expiry_time and time.time() > entry.expiry_time; put sets every
\* expiry_time to a positive instant
Expired(entry, t) == t > entry.expiry

\* what a call finds on entering its block
Snapshot ==
    [ cache |-> cache, order |-> access_order, now |-> now, hits |-> hits,
      misses |-> misses ]

\* the locals of a call of op that has just entered its block
Entered(first_pc, op, k, v, ttl) ==
    [ IdleThread EXCEPT !.pc = first_pc, !.op = op, !.key = k, !.value = v,
                        !.expiry = now + EffectiveTtl(ttl),
                        !.before = Snapshot ]

\* get entered without taking the lock
BeginGetUnlocked(t, k) ==
    /\ th[t].pc = "idle" /\ th[t].wpc = "none"
    /\ hits + misses < MaxGets
    /\ th' = [th EXCEPT ![t] = Entered("get_lookup", "get", k, NoneValue,
                                       NoTtl)]
    /\ UNCHANGED << max_size, default_ttl, cache, access_order, hits, misses,
                    lock, now, gets_done, recency, wrapped, files,
                    executions >>
    /\ UNCHANGED << procVars, detVars, qualVars >>

\* get(key): with self._lock
BeginGet(t, k) ==
    /\ th[t].pc = "idle" /\ th[t].wpc = "none"
    /\ lock = Free
    /\ hits + misses < MaxGets
    /\ lock' = t
    /\ th' = [th EXCEPT ![t] = Entered("get_lookup", "get", k, NoneValue,
                                       NoTtl)]
    /\ UNCHANGED << max_size, default_ttl, cache, access_order, hits, misses,
                    now, gets_done, recency, wrapped, files, executions >>
    /\ UNCHANGED << procVars, detVars, qualVars >>

\* one statement of get inside its block
GetStep(t) ==
    /\ th[t].op = "get" /\ th[t].pc \notin { "idle", "return" }
    /\ LET me == th[t]
           k == me.key
       IN  CASE me.pc = "get_lookup" ->
                  IF ~cache[k].stored
                  THEN /\ misses' = misses + 1
                       /\ th' = [th EXCEPT ![t].pc = "return",
                                           ![t].result = NoneValue]
                       /\ UNCHANGED << cache, access_order, hits >>
                  ELSE IF Expired(cache[k], now)
                  THEN /\ cache' = [cache EXCEPT ![k] = NoEntry]
                       /\ th' = [th EXCEPT ![t].pc = "get_expired_order"]
                       /\ UNCHANGED << access_order, hits, misses >>
                  ELSE /\ th' = [th EXCEPT ![t].pc = "get_order",
                                           ![t].value = cache[k].value]
                       /\ UNCHANGED << cache, access_order, hits, misses >>
             [] me.pc = "get_expired_order" ->
                  /\ access_order' = RemoveFirst(access_order, k)
                  /\ th' = [th EXCEPT ![t].pc = "get_expired_miss"]
                  /\ UNCHANGED << cache, hits, misses >>
             [] me.pc = "get_expired_miss" ->
                  /\ misses' = misses + 1
                  /\ th' = [th EXCEPT ![t].pc = "return",
                                      ![t].result = NoneValue]
                  /\ UNCHANGED << cache, access_order, hits >>
             [] me.pc = "get_order" ->
                  /\ access_order' = Touched(access_order, k)
                  /\ th' = [th EXCEPT ![t].pc = "get_hit"]
                  /\ UNCHANGED << cache, hits, misses >>
             [] OTHER ->
                  /\ hits' = hits + 1
                  /\ th' = [th EXCEPT ![t].pc = "return",
                                      ![t].result = me.value,
                                      ![t].hit = TRUE]
                  /\ UNCHANGED << cache, access_order, misses >>
    /\ UNCHANGED << max_size, default_ttl, lock, now, gets_done, recency,
                    wrapped, files, executions >>
    /\ UNCHANGED << procVars, detVars, qualVars >>

\* put(key, value, ttl): with self._lock, now and expiry computed
BeginPut(t, k, v, ttl) ==
    /\ th[t].pc = "idle" /\ th[t].wpc = "none"
    /\ lock = Free
    /\ lock' = t
    /\ th' = [th EXCEPT ![t] = Entered("put_check", "put", k, v, ttl)]
    /\ UNCHANGED << max_size, default_ttl, cache, access_order, hits, misses,
                    now, gets_done, recency, wrapped, files, executions >>
    /\ UNCHANGED << procVars, detVars, qualVars >>

\* put whose _evict_lru pops the newest key of access_order
PutStepEvictNewest(t) ==
    /\ th[t].op = "put" /\ th[t].pc \notin { "idle", "return" }
    /\ LET me == th[t]
           k == me.key
       IN  CASE me.pc = "put_check" ->
                  /\ th' = [th EXCEPT ![t].pc =
                               IF Cardinality(StoredKeys(cache)) >= max_size
                                  /\ ~cache[k].stored
                               THEN "put_pop" ELSE "put_store"]
                  /\ UNCHANGED << cache, access_order >>
             [] me.pc = "put_pop" ->
                  IF access_order # << >>
                  THEN /\ access_order' =
                              SubSeq(access_order, 1, Len(access_order) - 1)
                       /\ th' = [th EXCEPT
                                    ![t].pc = "put_del",
                                    ![t].lru = access_order[Len(access_order)]]
                       /\ UNCHANGED cache
                  ELSE /\ th' = [th EXCEPT ![t].pc = "put_store"]
                       /\ UNCHANGED << cache, access_order >>
             [] me.pc = "put_del" ->
                  /\ cache' = IF cache[me.lru].stored
                              THEN [cache EXCEPT ![me.lru] = NoEntry]
                              ELSE cache
                  /\ th' = [th EXCEPT ![t].pc = "put_store"]
                  /\ UNCHANGED access_order
             [] me.pc = "put_store" ->
                  /\ cache' = [cache EXCEPT ![k] =
                                  [ stored |-> TRUE, value |-> me.value,
                                    expiry |-> me.expiry ]]
                  /\ th' = [th EXCEPT ![t].pc = "put_order"]
                  /\ UNCHANGED access_order
             [] OTHER ->
                  /\ access_order' = Touched(access_order, k)
                  /\ th' = [th EXCEPT ![t].pc = "return"]
                  /\ UNCHANGED cache
    /\ UNCHANGED << max_size, default_ttl, hits, misses, lock, now, gets_done,
                    recency, wrapped, files, executions >>
    /\ UNCHANGED << procVars, detVars, qualVars >>

\* one statement of put, and of the _evict_lru it calls, inside its block
PutStep(t) ==
    /\ th[t].op = "put" /\ th[t].pc \notin { "idle", "return" }
    /\ LET me == th[t]
           k == me.key
       IN  CASE me.pc = "put_check" ->
                  /\ th' = [th EXCEPT ![t].pc =
                               IF Cardinality(StoredKeys(cache)) >= max_size
                                  /\ ~cache[k].stored
                               THEN "put_pop" ELSE "put_store"]
                  /\ UNCHANGED << cache, access_order >>
             [] me.pc = "put_pop" ->
                  IF access_order # << >>
                  THEN /\ access_order' = Tail(access_order)
                       /\ th' = [th EXCEPT ![t].pc = "put_del",
                                           ![t].lru = Head(access_order)]
                       /\ UNCHANGED cache
                  ELSE /\ th' = [th EXCEPT ![t].pc = "put_store"]
                       /\ UNCHANGED << cache, access_order >>
             [] me.pc = "put_del" ->
                  /\ cache' = IF cache[me.lru].stored
                              THEN [cache EXCEPT ![me.lru] = NoEntry]
                              ELSE cache
                  /\ th' = [th EXCEPT ![t].pc = "put_store"]
                  /\ UNCHANGED access_order
             [] me.pc = "put_store" ->
                  /\ cache' = [cache EXCEPT ![k] =
                                  [ stored |-> TRUE, value |-> me.value,
                                    expiry |-> me.expiry ]]
                  /\ th' = [th EXCEPT ![t].pc = "put_order"]
                  /\ UNCHANGED access_order
             [] OTHER ->
                  /\ access_order' = Touched(access_order, k)
                  /\ th' = [th EXCEPT ![t].pc = "return"]
                  /\ UNCHANGED cache
    /\ UNCHANGED << max_size, default_ttl, hits, misses, lock, now, gets_done,
                    recency, wrapped, files, executions >>
    /\ UNCHANGED << procVars, detVars, qualVars >>

\* clear(): with self._lock
BeginClear(t) ==
    /\ th[t].pc = "idle" /\ th[t].wpc = "none"
    /\ lock = Free
    /\ lock' = t
    /\ th' = [th EXCEPT ![t] = Entered("clear_cache", "clear", "k1",
                                       NoneValue, NoTtl)]
    /\ UNCHANGED << max_size, default_ttl, cache, access_order, hits, misses,
                    now, gets_done, recency, wrapped, files, executions >>
    /\ UNCHANGED << procVars, detVars, qualVars >>

\* one statement of clear inside its block
ClearStep(t) ==
    /\ th[t].op = "clear" /\ th[t].pc \notin { "idle", "return" }
    /\ CASE th[t].pc = "clear_cache" ->
               /\ cache' = [k \in Keys |-> NoEntry]
               /\ th' = [th EXCEPT ![t].pc = "clear_order"]
               /\ UNCHANGED << access_order, hits, misses >>
          [] th[t].pc = "clear_order" ->
               /\ access_order' = << >>
               /\ th' = [th EXCEPT ![t].pc = "clear_hits"]
               /\ UNCHANGED << cache, hits, misses >>
          [] th[t].pc = "clear_hits" ->
               /\ hits' = 0
               /\ th' = [th EXCEPT ![t].pc = "clear_misses"]
               /\ UNCHANGED << cache, access_order, misses >>
          [] OTHER ->
               /\ misses' = 0
               /\ th' = [th EXCEPT ![t].pc = "return"]
               /\ UNCHANGED << cache, access_order, hits >>
    /\ UNCHANGED << max_size, default_ttl, lock, now, gets_done, recency,
                    wrapped, files, executions >>
    /\ UNCHANGED << procVars, detVars, qualVars >>

\* get_stats(): with self._lock
BeginStats(t) ==
    /\ th[t].pc = "idle" /\ th[t].wpc = "none"
    /\ lock = Free
    /\ lock' = t
    /\ th' = [th EXCEPT ![t] = Entered("stats_read", "get_stats", "k1",
                                       NoneValue, NoTtl)]
    /\ UNCHANGED << max_size, default_ttl, cache, access_order, hits, misses,
                    now, gets_done, recency, wrapped, files, executions >>
    /\ UNCHANGED << procVars, detVars, qualVars >>

\* the statements of get_stats; hit_rate is left out
StatsStep(t) ==
    /\ th[t].op = "get_stats" /\ th[t].pc = "stats_read"
    /\ th' = [th EXCEPT ![t].pc = "return",
                        ![t].stats =
                            [ size |-> Cardinality(StoredKeys(cache)),
                              hits |-> hits, misses |-> misses,
                              total_requests |-> hits + misses ]]
    /\ UNCHANGED << max_size, default_ttl, cache, access_order, hits, misses,
                    lock, now, gets_done, recency, wrapped, files,
                    executions >>
    /\ UNCHANGED << procVars, detVars, qualVars >>

\* thread t leaves the block of its call: the lock is released and the call
\* has taken place
Leave(t) ==
    /\ lock' = IF lock = t THEN Free ELSE lock
    /\ gets_done' = IF th[t].op = "get" THEN gets_done + 1
                    ELSE IF th[t].op = "clear" THEN 0
                    ELSE gets_done
    /\ recency' = IF th[t].op = "put" \/ (th[t].op = "get" /\ th[t].hit)
                  THEN Touched(recency, th[t].key)
                  ELSE IF th[t].op = "clear" THEN << >>
                  ELSE recency

\* a call made by a caller of the cache returns
Return(t) ==
    /\ th[t].pc = "return" /\ th[t].wpc = "none"
    /\ Leave(t)
    /\ th' = [th EXCEPT ![t] = IdleThread]
    /\ UNCHANGED << max_size, default_ttl, cache, access_order, hits, misses,
                    now, wrapped, files, executions >>
    /\ UNCHANGED << procVars, detVars, qualVars >>

\* a second of time.time() passes
Tick ==
    /\ lock = Free
    /\ now < MaxTime
    /\ now' = now + 1
    /\ UNCHANGED << max_size, default_ttl, cache, access_order, hits, misses,
                    lock, th, gets_done, recency, wrapped, files,
                    executions >>
    /\ UNCHANGED << procVars, detVars, qualVars >>

\* InMemoryCache(max_size, default_ttl) shared by the threads
CacheInit ==
    /\ ProcessorIdle
    /\ DetectorFresh
    /\ QualityIdle
    /\ max_size \in MaxSizeChoices
    /\ default_ttl = 1
    /\ wrapped = NotWrapped
    /\ CacheFresh

CacheNext ==
    \/ \E t \in Threads, k \in Keys : BeginGet(t, k)
    \/ \E t \in Threads : GetStep(t)
    \/ \E t \in Threads, k \in Keys, v \in CacheValues, ttl \in TtlChoices :
           BeginPut(t, k, v, ttl)
    \/ \E t \in Threads : PutStep(t)
    \/ \E t \in Threads : BeginClear(t)
    \/ \E t \in Threads : ClearStep(t)
    \/ \E t \in Threads : BeginStats(t)
    \/ \E t \in Threads : StatsStep(t)
    \/ \E t \in Threads : Return(t)
    \/ Tick

CacheSpec == CacheInit /\ [][CacheNext]_vars

(* ---------------------------------------------------------------------- *)
(* PerformanceOptimizer.cached: the wrapper around a function.  The       *)
(* wrapped function is deterministic: wrapped.returns gives its result    *)
(* for each argument.  files is the PersistentCache directory, one file   *)
(* per key; a missing file and a file holding None both read as None.     *)
(* Callers of the wrapper come one after the other.                       *)
(* ---------------------------------------------------------------------- *)

\* the locals of the wrapper of thread t as it enters memory_cache.get or
\* memory_cache.put
InWrapper(entered, wpc, a) == [ entered EXCEPT !.wpc = wpc, !.arg = a ]

\* wrapper(*args): cache_key generated, memory_cache.get(cache_key) entered
CachedCall(t, a) ==
    /\ \A u \in Threads : th[u].pc = "idle" /\ th[u].wpc = "none"
    /\ lock = Free
    /\ hits + misses < MaxGets
    /\ lock' = t
    /\ th' = [th EXCEPT ![t] =
                 InWrapper(Entered("get_lookup", "get", KeyOf(a), NoneValue,
                                   NoTtl), "lookup", a)]
    /\ UNCHANGED << max_size, default_ttl, cache, access_order, hits, misses,
                    now, gets_done, recency, wrapped, files, executions >>
    /\ UNCHANGED << procVars, detVars, qualVars >>

\* memory_cache.get has returned: if result is not None: return result;
\* otherwise the persistent cache is read when enabled and its result put
\* into the memory cache, or the function is to be executed
AfterLookup(t) ==
    /\ th[t].pc = "return" /\ th[t].wpc = "lookup"
    /\ gets_done' = gets_done + 1
    /\ recency' = IF th[t].hit THEN Touched(recency, th[t].key) ELSE recency
    /\ LET me == th[t]
       IN  IF me.result # NoneValue
           THEN /\ lock' = Free
                /\ th' = [th EXCEPT ![t] =
                             [ IdleThread EXCEPT !.wpc = "returned",
                                                 !.arg = me.arg,
                                                 !.key = me.key,
                                                 !.result = me.result ]]
           ELSE IF wrapped.persistent /\ files[me.key] # NoneValue
           THEN /\ lock' = t
                /\ th' = [th EXCEPT ![t] =
                             InWrapper(Entered("put_check", "put", me.key,
                                               files[me.key], wrapped.ttl),
                                       "refill", me.arg)]
           ELSE /\ lock' = Free
                /\ th' = [th EXCEPT ![t] =
                             [ IdleThread EXCEPT !.wpc = "execute",
                                                 !.arg = me.arg,
                                                 !.key = me.key ]]
    /\ UNCHANGED << max_size, default_ttl, cache, access_order, hits, misses,
                    now, wrapped, files, executions >>
    /\ UNCHANGED << procVars, detVars, qualVars >>

\* result = func(*args, **kwargs), then memory_cache.put(cache_key, result,
\* ttl) is entered
Execute(t) ==
    /\ th[t].wpc = "execute"
    /\ lock = Free
    /\ executions' = [executions EXCEPT ![th[t].arg] = @ + 1]
    /\ lock' = t
    /\ th' = [th EXCEPT ![t] =
                 InWrapper(Entered("put_check", "put", th[t].key,
                                   wrapped.returns[th[t].arg], wrapped.ttl),
                           "store", th[t].arg)]
    /\ UNCHANGED << max_size, default_ttl, cache, access_order, hits, misses,
                    now, gets_done, recency, wrapped, files >>
    /\ UNCHANGED << procVars, detVars, qualVars >>

\* memory_cache.put has returned; after an execution the result is written
\* to the persistent cache when enabled; the wrapper returns the result
AfterStore(t) ==
    /\ th[t].pc = "return" /\ th[t].wpc \in { "store", "refill" }
    /\ lock' = Free
    /\ recency' = Touched(recency, th[t].key)
    /\ files' = IF th[t].wpc = "store" /\ wrapped.persistent
                THEN [files EXCEPT ![th[t].key] = th[t].value]
                ELSE files
    /\ th' = [th EXCEPT ![t] =
                 [ IdleThread EXCEPT !.wpc = "returned", !.arg = th[t].arg,
                                     !.key = th[t].key,
                                     !.result = th[t].value ]]
    /\ UNCHANGED << max_size, default_ttl, cache, access_order, hits, misses,
                    now, gets_done, wrapped, executions >>
    /\ UNCHANGED << procVars, detVars, qualVars >>

\* the caller has the result of the wrapper
CachedReturn(t) ==
    /\ th[t].wpc = "returned"
    /\ th' = [th EXCEPT ![t] = IdleThread]
    /\ UNCHANGED << max_size, default_ttl, cache, access_order, hits, misses,
                    lock, now, gets_done, recency, wrapped, files,
                    executions >>
    /\ UNCHANGED << procVars, detVars, qualVars >>

\* PerformanceOptimizer() and a function decorated with
\* cached(ttl, persistent)
CachedInit ==
    /\ ProcessorIdle
    /\ DetectorFresh
    /\ QualityIdle
    /\ max_size = OptimizerMaxSize
    /\ default_ttl = OptimizerDefaultTtl
    /\ wrapped \in [ ttl : { NoTtl, 1 }, persistent : BOOLEAN,
                     returns : [Args -> FuncResults] ]
    /\ CacheFresh

CachedNext ==
    \/ \E t \in Threads, a \in Args : CachedCall(t, a)
    \/ \E t \in Threads : GetStep(t)
    \/ \E t \in Threads : AfterLookup(t)
    \/ \E t \in Threads : Execute(t)
    \/ \E t \in Threads : PutStep(t)
    \/ \E t \in Threads : AfterStore(t)
    \/ \E t \in Threads : CachedReturn(t)
    \/ Tick

CachedSpec == CachedInit /\ [][CachedNext]_vars

(* ---------------------------------------------------------------------- *)
(* C11                                                                    *)
(* ---------------------------------------------------------------------- *)

\* C11: when the pipeline call of a pass p fails, the failing call is the
\* last one (p - 1 passes were recorded before it and the pipeline is not
\* called again), the run is left by the exception, no report is returned,
\* not even one built from passes 1..p-1, and no step of the run changes a
\* ConvergenceDetector's history lists.
C11_FailFast ==
    /\ [](pc = "raised" =>
             /\ report = NoReport
             /\ calls = NPasses + 1)
    /\ [][ /\ pc = "raised" =>
                 (pc' = "raised" /\ calls' = calls /\ report' = report
                    /\ passes' = passes)
           /\ quality_history' = quality_history
           /\ improvement_history' = improvement_history ]_vars

\* the pipeline failed on pass 3, after two recorded passes
C11_Witness == pc = "raised" /\ NPasses = 2 /\ calls = 3

(* ---------------------------------------------------------------------- *)
(* C12                                                                    *)
(* ---------------------------------------------------------------------- *)

\* C12: a run whose configuration has max_passes < 1 or a threshold outside
\* (0,1) is rejected before the loop starts: the pipeline is never invoked
\* and no refinement report is produced.
C12_InvalidConfigRejected ==
    ~ValidConfig =>
        /\ calls = 0
        /\ report.kind # "multi_pass_refinement"

(* ---------------------------------------------------------------------- *)
(* C13                                                                    *)
(* ---------------------------------------------------------------------- *)

\* the run was started on the empty text with a valid configuration and the
\* pipeline returned the empty text on pass 1
EmptyTextRun ==
    /\ ValidConfig
    /\ pc # "idle" /\ text = << >>
    /\ NPasses >= 1 /\ passes[1].output_text = << >>

\* C13 as stated: a run on the empty text whose pipeline returns the empty
\* text stops after pass 1 with the "no changes" outcome, for every valid
\* configuration.
C13_EmptyText_NoChanges ==
    EmptyTextRun =>
        /\ pc = "done"
        /\ NPasses = 1
        /\ calls = 1
        /\ reason = NoChangesReason

\* the stop reason of pass 1 of a run on the empty text
EmptyTextReason ==
    IF max_passes = 1 THEN MaxPassesReason
    ELSE IF ScoreOfPass(1) >= min_quality_threshold THEN QualityReason
    ELSE NoChangesReason

\* C13 amended: the quality model yields all-zero metrics for the empty
\* text, and a run on the empty text whose pipeline returns the empty text
\* stops after pass 1 for every valid configuration; its outcome is "no
\* changes" when max_passes >= 2 and the score is below
\* min_quality_threshold, "maximum passes reached" when max_passes = 1, and
\* "quality threshold reached" otherwise.
C13_EmptyText_Amended ==
    /\ AnalyzeComprehensiveQuality(EmptySample) = ZeroMetrics
    /\ EmptyTextRun =>
          /\ pc = "done"
          /\ NPasses = 1
          /\ calls = 1
          /\ reason = EmptyTextReason

\* a run on the empty text with passes left and a score below the threshold
C13_Witness ==
    /\ EmptyTextRun /\ pc = "done"
    /\ max_passes >= 2 /\ ScoreOfPass(1) = 0
    /\ reason = NoChangesReason

(* ---------------------------------------------------------------------- *)
(* C14                                                                    *)
(* ---------------------------------------------------------------------- *)

\* the step is a call of add_processing_result
AddStep == adds' = adds + 1

\* list new is list old with one entry appended, cut to its ten last entries
AppendedWithin10(old, new) ==
    IF Len(old) < 10
    THEN /\ Len(new) = Len(old) + 1
         /\ SubSeq(new, 1, Len(old)) = old
    ELSE /\ Len(new) = 10
         /\ \A i \in 1..9 : new[i] = old[i + 1]

\* C14: after any sequence of add_processing_result calls the history holds
\* at most 10 entries, the most recent ones in insertion order: the 11th and
\* every later insertion evicts exactly the oldest entry, and after 11
\* insertions get_quality_trend reports data_points = 10.
C14_HistoryCapacity ==
    /\ [](/\ Len(quality_history) <= 10
          /\ Len(improvement_history) <= 10
          /\ (last_result.op = "trend" /\ adds >= 11) =>
                 last_result.value.data_points = 10)
    /\ [][AddStep =>
              /\ AppendedWithin10(quality_history, quality_history')
              /\ AppendedWithin10(improvement_history, improvement_history')
         ]_vars

\* the trend is asked for after eleven insertions, the first of which differed
\* from the second
C14_Witness ==
    /\ last_result.op = "trend" /\ adds = 11 /\ ~cleared
    /\ last_result.value.data_points = 10
    /\ Len(quality_history) = 10
    /\ quality_history[1] # quality_history[2]

(* ---------------------------------------------------------------------- *)
(* C15                                                                    *)
(* ---------------------------------------------------------------------- *)

\* C15: with fewer than 2 history entries (fresh detector, after a reset, or
\* after a single insertion) check_convergence returns converged = false,
\* reason "Insufficient history", confidence 0.0 and recommendation continue,
\* whatever the quality of the single entry.
C15_InsufficientHistory ==
    (last_result.op = "check" /\ Len(quality_history) < 2) =>
        /\ last_result.value.converged = FALSE
        /\ last_result.value.reason = "Insufficient history"
        /\ last_result.value.confidence = 0
        /\ last_result.value.recommendation = "continue"

\* check_convergence on a single entry of quality 0.95 or more, inserted after
\* a reset
C15_Witness ==
    /\ last_result.op = "check" /\ cleared
    /\ Len(quality_history) = 1
    /\ quality_history[1].overall_quality >= 950

(* ---------------------------------------------------------------------- *)
(* C16                                                                    *)
(* ---------------------------------------------------------------------- *)

\* check_convergence has answered on a history of at least two entries
Decided == last_result.op = "check" /\ Len(quality_history) >= 2

\* the indicators the answer reports as true
TrueIndicators ==
    { k \in DOMAIN last_result.value.analysis_details :
          last_result.value.analysis_details[k] }

\* C16: with at least 2 history entries the decision follows the precedence,
\* first match wins: (1) overall_quality >= 0.95: converged, confidence 0.95;
\* (2) at least 3 of the 5 indicators: converged, confidence 0.8;
\* (3) overall_quality >= 0.85 and at least 2 indicators: converged,
\* confidence 0.85; (4) quality_plateau and stability_achieved: converged,
\* confidence 0.75; (5) otherwise not converged, confidence 0.6.
C16_DecisionPrecedence ==
    Decided =>
        LET v == last_result.value
            q == quality_history[Len(quality_history)].overall_quality
            n == Cardinality(TrueIndicators)
        IN  /\ DOMAIN v.analysis_details =
                   { "quality_plateau", "minimal_improvement",
                     "high_quality_reached", "stability_achieved",
                     "improvement_saturation" }
            /\ IF q >= 950 THEN v.converged /\ v.confidence = 950
               ELSE IF n >= 3 THEN v.converged /\ v.confidence = 800
               ELSE IF q >= 850 /\ n >= 2
               THEN v.converged /\ v.confidence = 850
               ELSE IF v.analysis_details.quality_plateau
                       /\ v.analysis_details.stability_achieved
               THEN v.converged /\ v.confidence = 750
               ELSE ~v.converged /\ v.confidence = 600

\* rule 2 fires on a history for which rule 3 matches as well
C16_Witness ==
    /\ Decided
    /\ quality_history[Len(quality_history)].overall_quality >= 850
    /\ quality_history[Len(quality_history)].overall_quality < 950
    /\ Cardinality(TrueIndicators) >= 3
    /\ last_result.value.confidence = 800

(* ---------------------------------------------------------------------- *)
(* C17                                                                    *)
(* ---------------------------------------------------------------------- *)

\* Scenario D: check_convergence has answered on three entries of overall
\* quality 0.80 each
ScenarioD ==
    /\ last_result.op = "check"
    /\ Len(quality_history) = 3
    /\ \A i \in 1..3 : quality_history[i].overall_quality = 800

\* C17 as stated: in Scenario D the detector reports quality_plateau and
\* stability_achieved, decides converged, and the reason is the
\* plateau-with-stability reason.
C17_ScenarioD_PlateauReason ==
    ScenarioD =>
        /\ last_result.value.analysis_details.quality_plateau
        /\ last_result.value.analysis_details.stability_achieved
        /\ last_result.value.converged
        /\ last_result.value.reason = "Quality plateau with stability"

\* C17 amended: in Scenario D the detector reports quality_plateau,
\* stability_achieved and minimal_improvement, decides converged, and the
\* reason is the multiple-indicators reason with confidence 0.8.
C17_ScenarioD_Amended ==
    ScenarioD =>
        /\ last_result.value.analysis_details.quality_plateau
        /\ last_result.value.analysis_details.stability_achieved
        /\ last_result.value.analysis_details.minimal_improvement
        /\ last_result.value.converged
        /\ last_result.value.reason = "Multiple convergence indicators detected"
        /\ last_result.value.confidence = 800

\* Scenario D with passes that each made two improvements
C17_Witness ==
    /\ ScenarioD
    /\ \A i \in 1..3 : improvement_history[i].improvements = 2
    /\ Cardinality(TrueIndicators) = 3

(* ---------------------------------------------------------------------- *)
(* C18                                                                    *)
(* ---------------------------------------------------------------------- *)

\* C18: with at least 2 history entries the recommendation is chosen by this
\* precedence, independently of the converged flag: overall_quality >= 0.95:
\* stop_excellent; else overall_quality >= 0.85: stop_good when
\* stability_achieved and continue_cautiously otherwise; else
\* improvement_saturation with overall_quality > 0.6: manual_review; else at
\* least 2 indicators: stop_convergence; else continue.  It is always one of
\* these six values.
C18_RecommendationPrecedence ==
    Decided =>
        LET v == last_result.value
            q == quality_history[Len(quality_history)].overall_quality
        IN  /\ v.recommendation \in
                   { "stop_excellent", "stop_good", "continue_cautiously",
                     "manual_review", "stop_convergence", "continue" }
            /\ v.recommendation =
                   IF q >= 950 THEN "stop_excellent"
                   ELSE IF q >= 850
                   THEN IF v.analysis_details.stability_achieved
                        THEN "stop_good" ELSE "continue_cautiously"
                   ELSE IF v.analysis_details.improvement_saturation
                           /\ q > 600
                   THEN "manual_review"
                   ELSE IF Cardinality(TrueIndicators) >= 2
                   THEN "stop_convergence"
                   ELSE "continue"

\* saturated improvements at quality 0.6 exactly: no manual review, and the
\* recommendation stops a run the decision calls not converged
C18_Witness ==
    /\ Decided
    /\ quality_history[Len(quality_history)].overall_quality = 600
    /\ last_result.value.analysis_details.improvement_saturation
    /\ last_result.value.recommendation = "stop_convergence"
    /\ ~last_result.value.converged

(* ---------------------------------------------------------------------- *)
(* C19                                                                    *)
(* ---------------------------------------------------------------------- *)

\* what the queries answer on a freshly constructed detector
FreshAnswer(op) ==
    IF op = "check"
    THEN [ converged |-> FALSE, reason |-> "Insufficient history",
           confidence |-> 0, recommendation |-> "continue" ]
    ELSE IF op = "trend"
    THEN [ trend |-> "insufficient_data", direction |-> "unknown" ]
    ELSE [ status |-> "no_data" ]

\* C19: check_convergence, get_quality_trend and get_detailed_analysis leave
\* both history lists unchanged, so the history persists until reset_history
\* is called; after reset_history both lists are empty and the detector
\* answers and grows as a freshly constructed one does.
C19_HistoryLifecycle ==
    /\ [](last_result.op = "reset" =>
              /\ quality_history = << >>
              /\ improvement_history = << >>)
    /\ []((/\ quality_history = << >>
           /\ last_result.op \in { "check", "trend", "analysis" }) =>
              last_result.value = FreshAnswer(last_result.op))
    /\ []((cleared /\ adds = 1 /\ last_result.op # "reset") =>
              /\ Len(quality_history) = 1
              /\ Len(improvement_history) = 1)
    /\ [][ /\ last_result'.op \in { "check", "trend", "analysis" } =>
                /\ quality_history' = quality_history
                /\ improvement_history' = improvement_history
           /\ (quality_history' # quality_history
                 \/ improvement_history' # improvement_history) =>
                last_result'.op \in { "add", "reset" }
         ]_vars

\* after a reset that emptied a history, one entry was inserted and the
\* detailed analysis asked for
C19_Witness ==
    /\ cleared /\ adds = 1
    /\ last_result.op = "analysis"
    /\ last_result.value.status = "analyzed"
    /\ Len(quality_history) = 1 /\ Len(improvement_history) = 1

(* ---------------------------------------------------------------------- *)
(* C20                                                                    *)
(* ---------------------------------------------------------------------- *)

\* the weighted sum of the five sub-scores, in units of 1/100000
WeightedSum(m) ==
    25 * m.readability + 25 * m.clarity + 20 * m.grammar
    + 15 * m.structure + 15 * m.coherence

\* C20: analyze_comprehensive_quality returns an overall_quality within
\* [0,1]; it is 0 for a text with no words or no sentences; it is the
\* weighted sum 0.25 readability + 0.25 clarity + 0.20 grammar + 0.15
\* structure + 0.15 coherence (truncated to thousandths) of sub-scores that
\* each lie in [0,1].
C20_OverallQualityRange ==
    quality_metrics # NoSample =>
        LET m == quality_metrics IN
        /\ m.overall_quality >= 0 /\ m.overall_quality <= 1000
        /\ (sample.words = 0 \/ sample.sentence_lengths = << >>) =>
               m.overall_quality = 0
        /\ \A v \in { m.readability, m.clarity, m.grammar, m.structure,
                      m.coherence } : v >= 0 /\ v <= 1000
        /\ 100 * m.overall_quality <= WeightedSum(m)
        /\ WeightedSum(m) < 100 * m.overall_quality + 100

\* a text of one sentence of 250 words: the Flesch score is negative and the
\* readability is clamped to 0, the other sub-scores are not
C20_Witness ==
    /\ quality_metrics # NoSample
    /\ sample.sentence_lengths = <<250>> /\ sample.words = 250
    /\ quality_metrics.readability = 0
    /\ quality_metrics.overall_quality > 0

(* ---------------------------------------------------------------------- *)
(* C23                                                                    *)
(* ---------------------------------------------------------------------- *)

\* C23: computing a pass's convergence metrics never raises, for any pair of
\* input and output texts, also when the pipeline returns a non-empty output
\* for the empty input.
C23_MetricsNeverRaise == pc # "zerodiv"

(* ---------------------------------------------------------------------- *)
(* C24                                                                    *)
(* ---------------------------------------------------------------------- *)

\* the last pipeline call returned a result without a quality score and its
\* pass was recorded
OmittedScore ==
    /\ pc \in { "running", "done" }
    /\ NPasses >= 1 /\ calls = NPasses
    /\ final_validation = NoScore

\* C24: when the pipeline result omits the quality score, the score of the
\* pass is not silently taken as 0: it is the quality model's score of the
\* output text, which is above 0 for every text that has a word and a
\* sentence.
C24_OmittedScoreRecomputed ==
    (OmittedScore /\ passes[NPasses].output_text # << >>) =>
        ScoreOfPass(NPasses) > 0

(* ---------------------------------------------------------------------- *)
(* C25                                                                    *)
(* ---------------------------------------------------------------------- *)

\* C25: passes are chained: the input of pass 1 is the text given to the run,
\* the input of every pass p > 1 is the output of pass p-1, and the
\* quality_improvement of pass p is its score minus the score of pass p-1
\* (minus 0 for pass 1).
C25_PassesChained ==
    \A p \in 1..NPasses :
        /\ passes[p].input_text =
               IF p = 1 THEN text ELSE passes[p - 1].output_text
        /\ passes[p].convergence_metrics.quality_improvement =
               ScoreOfPass(p) - (IF p = 1 THEN 0 ELSE ScoreOfPass(p - 1))

\* three passes, the first two of which changed the text and improved the
\* score
C25_Witness ==
    /\ pc = "done" /\ NPasses = 3
    /\ Changed(1) /\ Changed(2)
    /\ ScoreOfPass(1) > 0 /\ ScoreOfPass(2) > ScoreOfPass(1)

(* ---------------------------------------------------------------------- *)
(* C29                                                                    *)
(* ---------------------------------------------------------------------- *)

\* C29: in every completed run the stop reason and the report's
\* convergence_achieved flag are tied: "quality threshold reached" comes with
\* convergence_achieved = true, "convergence detected" and "no changes made"
\* come with convergence_achieved = false; only "maximum passes reached" can
\* come with either value.
C29_ReasonAndFlag ==
    Completed =>
        /\ reason = QualityReason =>
               report.overall_metrics.convergence_achieved
        /\ reason \in { ConvergenceReason, NoChangesReason } =>
               ~report.overall_metrics.convergence_achieved
        /\ reason \in { MaxPassesReason, QualityReason, ConvergenceReason,
                        NoChangesReason }

\* a run stopped by the pass budget on a pass that reached the quality
\* threshold
C29_Witness ==
    /\ Completed /\ ValidConfig
    /\ reason = MaxPassesReason /\ NPasses >= 2
    /\ report.overall_metrics.convergence_achieved

(* ---------------------------------------------------------------------- *)
(* C27                                                                    *)
(* ---------------------------------------------------------------------- *)

\* C27: decision rule 4 is unreachable: stability_achieved implies
\* minimal_improvement and quality_plateau implies stability_achieved, so
\* whenever quality_plateau and stability_achieved hold at least 3 indicators
\* are true, and check_convergence never returns confidence 0.75 or the
\* reason "Quality plateau with stability".
C27_RuleFourUnreachable ==
    last_result.op = "check" =>
        /\ last_result.value.confidence # 750
        /\ last_result.value.reason # "Quality plateau with stability"
        /\ Decided =>
               LET d == last_result.value.analysis_details
               IN  /\ d.stability_achieved => d.minimal_improvement
                   /\ d.quality_plateau => d.stability_achieved
                   /\ (d.quality_plateau /\ d.stability_achieved) =>
                          Cardinality(TrueIndicators) >= 3

\* a plateau with stability below the high quality threshold, on qualities
\* that are not all equal: the condition of rule 4 holds and rule 2 answers
C27_Witness ==
    /\ Decided
    /\ last_result.value.analysis_details.quality_plateau
    /\ last_result.value.analysis_details.stability_achieved
    /\ quality_history[Len(quality_history)].overall_quality = 805
    /\ quality_history[Len(quality_history) - 1].overall_quality = 800
    /\ last_result.value.confidence = 800

(* ---------------------------------------------------------------------- *)
(* C28                                                                    *)
(* ---------------------------------------------------------------------- *)

\* C28: for every history of at least 2 entries check_convergence never
\* returns converged = true together with the recommendation continue, and
\* never converged = false together with stop_excellent or stop_good.
C28_DecisionAndRecommendation ==
    Decided =>
        /\ last_result.value.converged =>
               last_result.value.recommendation # "continue"
        /\ ~last_result.value.converged =>
               last_result.value.recommendation
                   \notin { "stop_excellent", "stop_good" }

\* high quality without stability: not converged, and the recommendation is
\* to continue cautiously
C28_Witness ==
    /\ Decided
    /\ ~last_result.value.converged
    /\ quality_history[Len(quality_history)].overall_quality >= 850
    /\ last_result.value.recommendation = "continue_cautiously"

(* ---------------------------------------------------------------------- *)
(* C30                                                                    *)
(* ---------------------------------------------------------------------- *)

\* the two entries stem from the same call of add_processing_result: the
\* calls made hand over either the empty text with no improvement or a text
\* of positive quality with two improvements
SameCall(metrics, entry) ==
    (metrics.overall_quality = 0) <=> (entry.improvements = 0)

\* C30: quality_history and improvement_history always have the same length,
\* at most 10, and entry i of one was recorded by the same
\* add_processing_result call as entry i of the other.
C30_HistoriesAligned ==
    /\ Len(quality_history) = Len(improvement_history)
    /\ Len(quality_history) <= 10
    /\ \A i \in 1..Len(quality_history) :
           i <= Len(improvement_history)
               /\ SameCall(quality_history[i], improvement_history[i])

\* twelve insertions, two evictions; the oldest and the newest entry kept
\* stem from different inputs
C30_Witness ==
    /\ last_result.op = "add" /\ adds = 12
    /\ Len(quality_history) = 10
    /\ quality_history[1].overall_quality = 0
    /\ quality_history[10].overall_quality > 0
    /\ improvement_history[10].improvements = 2

(* ---------------------------------------------------------------------- *)
(* C22  InMemoryCache is thread-safe: at most one call is inside a        *)
(* with self._lock block at a time and it holds the lock, so whenever no  *)
(* call is inside a block the number of stored entries is at most         *)
(* max_size, access_order holds exactly the stored keys, each once, and   *)
(* hits + misses is the number of get calls completed since the last      *)
(* clear; get_stats reports counters that satisfy the same.               *)
(* ---------------------------------------------------------------------- *)

\* thread t is inside the block of a call
InBlock(t) == th[t].pc # "idle"

\* the elements of a list
Elements(q) == { q[i] : i \in 1..Len(q) }

C22_ThreadSafe ==
    /\ \A t \in Threads : InBlock(t) => lock = t
    /\ \A t \in Threads :
           (th[t].pc = "return" /\ th[t].op = "get_stats") =>
               /\ th[t].stats.size <= max_size
               /\ th[t].stats.total_requests = gets_done
               /\ th[t].stats.hits + th[t].stats.misses = gets_done
    /\ lock = Free =>
           /\ Cardinality(StoredKeys(cache)) <= max_size
           /\ Elements(access_order) = StoredKeys(cache)
           /\ Len(access_order) = Cardinality(StoredKeys(cache))
           /\ hits + misses = gets_done

\* a full cache of two entries after hits and misses, one thread waiting
\* to leave get_stats
C22_Witness ==
    /\ max_size = 2
    /\ Cardinality(StoredKeys(cache)) = 2
    /\ hits >= 1
    /\ misses >= 1
    /\ th["t1"].pc = "return" /\ th["t1"].op = "get_stats"
    /\ th["t1"].stats.total_requests >= 2
    /\ th["t2"].pc = "idle"

(* ---------------------------------------------------------------------- *)
(* C26  Eviction is by least-recent use.  When a put returns: if its key  *)
(* was new and the cache held max_size entries, exactly the entry whose   *)
(* last successful get or put is oldest is gone and every other entry is  *)
(* as it was; otherwise every other entry is as it was.  When a get       *)
(* returns: every entry that had not expired is as it was, and if the     *)
(* entry asked for had expired it is gone, the call is a miss and         *)
(* returns None.                                                          *)
(* ---------------------------------------------------------------------- *)

\* the stored key whose last successful get or put is oldest
RECURSIVE LeastRecent(_, _)
LeastRecent(c, r) ==
    IF r = << >> THEN "none"
    ELSE IF c[Head(r)].stored THEN Head(r)
    ELSE LeastRecent(c, Tail(r))

PutReturned(t) == th[t].pc = "return" /\ th[t].op = "put"

GetReturned(t) == th[t].pc = "return" /\ th[t].op = "get"

\* the put of t found its key absent and the cache full
EvictingPut(t) ==
    /\ PutReturned(t)
    /\ ~th[t].before.cache[th[t].key].stored
    /\ Cardinality(StoredKeys(th[t].before.cache)) = max_size

\* the get of t found an expired entry under its key
ExpiredGet(t) ==
    /\ GetReturned(t)
    /\ th[t].before.cache[th[t].key].stored
    /\ Expired(th[t].before.cache[th[t].key], th[t].before.now)

C26_LruEviction ==
    \A t \in Threads :
        LET b == th[t].before
            k == th[t].key
            old == LeastRecent(b.cache, recency)
        IN  /\ EvictingPut(t) =>
                /\ old \in StoredKeys(b.cache)
                /\ StoredKeys(cache) = (StoredKeys(b.cache) \ { old })
                                           \cup { k }
                /\ \A j \in Keys \ { k, old } : cache[j] = b.cache[j]
            /\ (PutReturned(t) /\ ~EvictingPut(t)) =>
                /\ \A j \in Keys \ { k } : cache[j] = b.cache[j]
                /\ cache[k].stored
            /\ GetReturned(t) =>
                \A j \in Keys :
                    (b.cache[j].stored /\ ~Expired(b.cache[j], b.now)) =>
                        cache[j] = b.cache[j]
            /\ ExpiredGet(t) =>
                /\ ~cache[k].stored
                /\ \A j \in Keys \ { k } : cache[j] = b.cache[j]
                /\ ~th[t].hit
                /\ th[t].result = NoneValue
                /\ misses = b.misses + 1
                /\ hits = b.hits

\* k1 was put before k2 and read after it: the put of k3 evicted k2
C26_Witness ==
    /\ max_size = 2
    /\ EvictingPut("t1")
    /\ th["t1"].key = "k3"
    /\ th["t1"].before.order = << "k2", "k1" >>
    /\ recency = << "k1", "k2", "k1" >> \/ recency = << "k2", "k1" >>
    /\ hits >= 1
    /\ cache["k1"].stored
    /\ ~cache["k2"].stored
    /\ cache["k3"].stored

(* ---------------------------------------------------------------------- *)
(* C21  A call of a function wrapped with cached executes the function    *)
(* only when the memory cache holds no unexpired entry for its            *)
(* arguments, whatever the function returns, and every call returns what  *)
(* the function returns for its arguments.                                *)
(* ---------------------------------------------------------------------- *)

\* the memory cache holds an unexpired entry for the arguments a
Cached(a) ==
    /\ cache[KeyOf(a)].stored
    /\ ~Expired(cache[KeyOf(a)], now)

C21_SecondCallCached ==
    [][ /\ \A a \in Args : executions'[a] > executions[a] => ~Cached(a)
        /\ \A t \in Threads :
               th'[t].wpc = "returned" =>
                   th'[t].result = wrapped.returns[th'[t].arg] ]_vars


====
